---- MODULE Spec2Model ----
(***************************************************************************)
(* AutoNP: the herb -> compound -> target -> gene pipeline.                *)
(*                                                                         *)
(* Spec       the driver workflow of autonp_engine.py (__main__): the      *)
(*            TCMSP download, the target match, the hand-over of the       *)
(*            failed herbs to HerbAC, the HerbAC download and the entry    *)
(*            of the prediction step.                                      *)
(* SpecSwiss  SwissPredict.process_smiles_dataframe: the proxy pool, the   *)
(*            bounded retry loop and the two returned tables;              *)
(*            SpecSwissLive adds that the call keeps running.              *)
(* SpecPredict, SpecMatch, SpecFilters, SpecGene, SpecReference, SpecAdme, *)
(* SpecNames, SpecChars: one operation each, on any input within bounds.   *)
(*                                                                         *)
(* Strings that the code inspects character by character (herb names) are  *)
(* sequences of Unicode code points; None is the empty sequence wherever   *)
(* the caller only tests truthiness.                                       *)
(***************************************************************************)
EXTENDS Integers, Sequences, FiniteSets, TLC

VARIABLES
    \* ---- configuration (Config.search) ----
    herbs,                  \* config.search.herbs
    exact_match,            \* config.search.exact_match
    filter_swiss_prob,      \* config.filter.swiss.prob, <<is not None, percent>>
    filter_tcmsp,           \* config.filter.tcmsp: [ob, dl]
    filter_herbac,          \* config.filter.herbac: [weight]
    filter_pubchem,         \* config.filter.pubchem: [xlogp, hbonddonor, hbondacc]
    \* ---- driver (__main__) ----
    pc,                     \* position of the driver
    err,                    \* the unhandled exception that ended the run, "" when none
    err_in,                 \* the operation the exception escaped from
    net,                    \* the requests sent to third parties and the sleeps:
                            \* [pending, back_to_back]
    \* ---- Tcmsp ----
    tcmsp_herb_names,       \* Tcmsp.herb_names
    tcmsp_token,            \* token of download_herbs_data: "unset", "" or "tok"
    tcmsp_i,                \* index of the collecting loop (1-based)
    tcmsp_info_list,        \* herb_info_list_all
    tcmsp_info_from,        \* for each entry of herb_info_list_all, the position
                            \* in herb_names of the name it was collected for
    tcmsp_j,                \* index of the processing loop (1-based)
    tcmsp_success_herbs,    \* Tcmsp.success_herbs
    tcmsp_failure_herbs,    \* Tcmsp.failure_herbs
    tcmsp_status,           \* all_download_info
    tcmsp_status_set,       \* whether self.download_status has been assigned
    tcmsp_ret,              \* return value of download_herbs_data
    tcmsp_files,            \* files under Tcmsp.save_directory
    tcmsp_requests,         \* [search |-> n, download |-> n]: requests issued
    \* ---- HerbAC ----
    herbac_herb_names,      \* HerbAC.herb_names
    herbac_i,
    herbac_info_list,
    herbac_j,
    herbac_success_herbs,   \* HerbAC.success_herbs
    herbac_failure_herbs,   \* HerbAC.failure_herbs
    herbac_status,
    herbac_files,
    herbac_requests,        \* [search |-> n, detail |-> n]
    \* ---- SwissPredict ----
    swiss_pc,               \* position inside process_smiles_dataframe
    swiss_input,            \* df[smiles_column_name]
    proxies_list,           \* SwissPredict.proxies_list
    swiss_fetches,          \* number of calls of fetch_proxies
    swiss_k,                \* index of the compound loop (1-based)
    swiss_success,          \* local success
    swiss_attempts,         \* local attempts
    swiss_session,          \* id of the session of the current attempt, 0 when none
    swiss_sessions,         \* number of sessions created so far
    swiss_proxy,            \* local proxy, "" while unbound
    swiss_results,          \* local results
    swiss_failed,           \* local failed
    swiss_log,              \* history: one entry per attempt that sent a request
    swiss_ret,              \* the returned pair; <<>> before the return
    \* ---- HerbAC.predict_targets, from load_swissadme on ----
    compounds_smiles,       \* compounds_filtered["isosmiles"]
    adme_response,          \* what the SwissADME site answered
    adme_csv,               \* the rows of the downloaded swissadme_<code>.csv
    swiss_adme,             \* the frame load_swissadme returned
    swissadme_files,        \* result codes of the swissadme_<code>.csv files saved
    swissadme_requests,     \* [post |-> n, download |-> n]
    predict_file,           \* whether predict_file_name has been written
    \* ---- Tcmsp.match_targets ----
    ingredient_files,       \* <herb>_ingredients.csv under Tcmsp.save_directory
    target_files,           \* <herb>_targets.csv under Tcmsp.save_directory
    tcmsp_ingredients,      \* local tcmsp_ingredients (its rows)
    ingredient_target_match,\* Tcmsp.ingredient_target_match (its rows)
    match_file,             \* whether match_file_name has been written
    \* ---- HerbAC.predict_targets, up to the concatenation ----
    herbac_ingredient_files,\* <herb>_ingredients.csv under HerbAC.save_directory
    herbac_ingredients,     \* local herbac_ingredients (its rows)
    \* ---- HerbAC.apply_filters ----
    filters_df,             \* the argument df (its rows)
    pubchem_compounds,      \* what load_pubchem_compounds returned (its rows)
    compounds_filtered,     \* the returned frame (its rows)
    \* ---- AutoNP.match_gene ----
    tcmsp_target,           \* the file match_file_name of Tcmsp
    herbac_target,          \* the file predict_file_name of HerbAC
    uniprot_full_gene,      \* uniprot_20426.csv (its rows)
    tcmsp_herbac_target,    \* the concatenated target table (its rows)
    target_gene,            \* the joined, sorted table (its rows)
    protein_name,           \* a cell of "Protein names", as code points
    protein_clean,          \* its cell of Protein_names, as code points
    \* ---- HerbAC.load_all_ingredients ----
    all_ingredients_file,   \* HERB_ingredient_info.txt under HerbAC.save_directory
    all_ingredients_requests, \* [sent |-> n, answered |-> n]: requests for the file
    all_ingredients_calls,  \* calls of load_all_ingredients that have ended
    herbac_all_ingredients  \* the frame the last call returned (its rows)

configVars == <<herbs, exact_match, filter_swiss_prob, filter_tcmsp, filter_herbac,
                filter_pubchem>>

driverVars == <<configVars, pc, err, err_in>>

predictVars == <<compounds_smiles, adme_response, adme_csv, swiss_adme,
                 swissadme_files, swissadme_requests, predict_file>>

matchVars == <<ingredient_files, target_files, tcmsp_ingredients,
               ingredient_target_match, match_file, herbac_ingredient_files,
               herbac_ingredients>>

filterVars == <<filters_df, pubchem_compounds, compounds_filtered>>

geneVars == <<tcmsp_target, herbac_target, uniprot_full_gene, tcmsp_herbac_target,
              target_gene, protein_name, protein_clean>>

referenceVars == <<all_ingredients_file, all_ingredients_requests,
                   all_ingredients_calls, herbac_all_ingredients>>

tableVars == <<matchVars, filterVars, geneVars, referenceVars>>

tcmspVars == <<tcmsp_herb_names, tcmsp_token, tcmsp_i, tcmsp_info_list,
               tcmsp_info_from, tcmsp_j,
               tcmsp_success_herbs, tcmsp_failure_herbs, tcmsp_status,
               tcmsp_status_set, tcmsp_ret, tcmsp_files, tcmsp_requests>>

herbacVars == <<herbac_herb_names, herbac_i, herbac_info_list, herbac_j,
                herbac_success_herbs, herbac_failure_herbs, herbac_status,
                herbac_files, herbac_requests>>

swissVars == <<swiss_pc, swiss_input, proxies_list, swiss_fetches, swiss_k,
               swiss_success, swiss_attempts, swiss_session, swiss_sessions,
               swiss_proxy, swiss_results, swiss_failed, swiss_log, swiss_ret>>

vars == <<driverVars, net, tcmspVars, herbacVars, swissVars, predictVars, tableVars>>

(***************************************************************************)
(* Bounds                                                                  *)
(***************************************************************************)
MaxHerbs == 2       \* longest config.search.herbs
MaxSmiles == 2      \* longest SMILES column
MaxProxies == 2     \* longest proxy list the proxy API returns
MaxCalls == 4       \* most calls of load_all_ingredients followed
MaxAdmeRows == 3    \* most rows of a SwissADME result file
MaxNameLen == 4     \* longest protein name drawn from NameAlphabet

(***************************************************************************)
(* Strings as sequences of code points                                     *)
(***************************************************************************)
RenShen == <<20154, 21442>>                             \* "人参"
RenShenYe == <<20154, 21442, 21494>>                    \* "人参叶"
Ginseng == <<71, 105, 110, 115, 101, 110, 103>>         \* "Ginseng"
GinsengLeaf == <<71, 105, 110, 115, 101, 110, 103, 32, 76, 101, 97, 102>>
Renshen == <<82, 101, 110, 115, 104, 101, 110>>         \* "Renshen"
Renshenye == <<82, 101, 110, 115, 104, 101, 110, 121, 101>>
Blank == <<32>>                                         \* " "
PaddedRenShen == <<32, 20154, 21442>>                   \* " 人参"

HerbNameUniverse == {Blank, RenShen, Ginseng, PaddedRenShen}

\* str.isspace for the characters that occur
IsSpace(c) == c \in {9, 10, 11, 12, 13, 32}

RECURSIVE LStrip(_)
LStrip(s) ==
    IF s = <<>> THEN <<>>
    ELSE IF IsSpace(Head(s)) THEN LStrip(Tail(s)) ELSE s

RECURSIVE RStrip(_)
RStrip(s) ==
    IF s = <<>> THEN <<>>
    ELSE IF IsSpace(s[Len(s)]) THEN RStrip(SubSeq(s, 1, Len(s) - 1)) ELSE s

\* str.strip()
Strip(s) == RStrip(LStrip(s))

LowerChar(c) == IF 65 <= c /\ c <= 90 THEN c + 32 ELSE c
UpperChar(c) == IF 97 <= c /\ c <= 122 THEN c - 32 ELSE c

\* str.lower(), str.upper()
Lower(s) == [i \in 1..Len(s) |-> LowerChar(s[i])]
Upper(s) == [i \in 1..Len(s) |-> UpperChar(s[i])]

\* x in list
InList(x, list) == \E i \in 1..Len(list) : list[i] = x

\* the set of a list's elements
Elems(list) == {list[i] : i \in 1..Len(list)}

\* list.count(x)
Count(x, list) == Cardinality({i \in 1..Len(list) : list[i] = x})

\* all sequences over S of length at most n
SeqsUpTo(S, n) == UNION {[1..k -> S] : k \in 0..n}

\* "一" <= char <= "鿿"
\* mutant: the two ends of the range are left out
is_chinese_char_Exclusive(char) == 19968 < char /\ char < 40959

is_chinese_char(char) == 19968 <= char /\ char <= 40959

(***************************************************************************)
(* Tcmsp                                                                   *)
(***************************************************************************)
\* entries of the three-name JSON the TCMSP search page embeds
TcmspRenShen ==
    [herb_cn_name |-> RenShen, herb_en_name |-> Ginseng, herb_pinyin |-> Renshen,
     downloadable |-> TRUE]
TcmspRenShenYe ==
    [herb_cn_name |-> RenShenYe, herb_en_name |-> GinsengLeaf,
     herb_pinyin |-> Renshenye, downloadable |-> TRUE]

\* What fetch_html_content returns for a search: html = FALSE is the "" of a
\* failed request, data the list after "data:" in the page's script.
TcmspSearchPages ==
    {[html |-> FALSE, data |-> <<>>],
     [html |-> TRUE, data |-> <<>>],
     [html |-> TRUE, data |-> <<TcmspRenShen>>],
     [html |-> TRUE, data |-> <<TcmspRenShen, TcmspRenShenYe>>]}

\* row counts of an embedded table (0: the marker is absent)
RowCounts == {0, 2}

\* What fetch_html_content returns for a herb's page: the rows found under
\* the markers grid, grid2 and grid3.
TcmspHerbPages ==
    {[html |-> FALSE, grid |-> 0, grid2 |-> 0, grid3 |-> 0]}
    \cup {[html |-> TRUE, grid |-> a, grid2 |-> b, grid3 |-> c] :
            a \in RowCounts, b \in RowCounts, c \in RowCounts}

\* fetch_token: "" when the page or the form field is missing
TcmspTokens == {"", "tok"}

\* mutant: every candidate of the page passes the filter
exact_match_filter_All(herb_name, herb_three_names) == herb_three_names

\* exact_match_filter, lines 88-110; <<>> is None
exact_match_filter(herb_name, herb_three_names) ==
    IF herb_three_names = <<>> THEN <<>>
    ELSE IF is_chinese_char(herb_name[1])
         THEN SelectSeq(herb_three_names,
                        LAMBDA item : item.herb_cn_name = herb_name)
         ELSE SelectSeq(herb_three_names,
                        LAMBDA item :
                            \/ Lower(item.herb_en_name) = Lower(herb_name)
                            \/ Lower(item.herb_pinyin) = Lower(herb_name))

fetch_herb_info(herb_name, page, exact) ==
    IF ~page.html THEN <<>>
    ELSE IF page.data = <<>> THEN <<>>
    ELSE IF exact THEN exact_match_filter(herb_name, page.data)
    ELSE page.data

\* the placeholder appended for a herb that was not found
TcmspPlaceholder(herb_name) ==
    [herb_cn_name |-> herb_name, herb_en_name |-> <<>>, herb_pinyin |-> <<>>,
     downloadable |-> FALSE]

\* mutant: the save reports success whatever the data
save_data_to_csv_Always(rows) == TRUE

\* save_data_to_csv: True exactly when there is data
save_data_to_csv(rows) == rows > 0

StatusRow(herb_info, file_type, ok, rows) ==
    [cn |-> herb_info.herb_cn_name, en |-> herb_info.herb_en_name,
     pinyin |-> herb_info.herb_pinyin, file_type |-> file_type,
     status |-> IF ok THEN "success" ELSE "failure", rows |-> rows]

\* the three rows recorded for a herb whose download is not attempted or
\* whose page request failed (pinyin is read under the key "pinyin_name",
\* which no herb info has)
FailureRows(herb_info) ==
    [k \in 1..3 |->
        [cn |-> herb_info.herb_cn_name, en |-> herb_info.herb_en_name,
         pinyin |-> <<>>,
         file_type |-> <<"ingredients", "targets", "diseases">>[k],
         status |-> "failure", rows |-> 0]]

\* download_single_herb: the returned download_info
download_single_herb(herb_info, page) ==
    IF page.html
    THEN <<StatusRow(herb_info, "ingredients", save_data_to_csv(page.grid), page.grid),
           StatusRow(herb_info, "targets", save_data_to_csv(page.grid2), page.grid2),
           StatusRow(herb_info, "diseases", save_data_to_csv(page.grid3), page.grid3)>>
    ELSE [k \in 1..3 |->
            StatusRow(herb_info, <<"ingredients", "targets", "diseases">>[k], FALSE, 0)]

\* a file <name>_<kind>.csv holding `rows` records of herb `of`
File(name, kind, rows, of) == [name |-> name, kind |-> kind, rows |-> rows, of |-> of]

\* writing files: a file of the same name and kind is overwritten
WriteFiles(files, new) ==
    {f \in files : ~\E g \in new : g.name = f.name /\ g.kind = f.kind} \cup new

\* download_single_herb: the files it saves under herb_name
SavedFiles(herb_name, herb_info, page) ==
    IF ~page.html THEN {}
    ELSE {File(herb_name, "ingredients", page.grid, herb_info.herb_cn_name) : x \in
            IF save_data_to_csv(page.grid) THEN {1} ELSE {}}
         \cup
         {File(herb_name, "targets", page.grid2, herb_info.herb_cn_name) : x \in
            IF save_data_to_csv(page.grid2) THEN {1} ELSE {}}
         \cup
         {File(herb_name, "diseases", page.grid3, herb_info.herb_cn_name) : x \in
            IF save_data_to_csv(page.grid3) THEN {1} ELSE {}}

\* a pandas DataFrame, and None where a DataFrame is expected
DataFrame(columns, rows) == [none |-> FALSE, columns |-> columns, rows |-> rows]
None == [none |-> TRUE, columns |-> <<>>, rows |-> <<>>]

\* the columns load_swissadme keeps of the SwissADME result file
SwissAdmeColumns == <<"Molecule", "Canonical SMILES", "Formula">>

\* no answer of the SwissADME site (yet)
NoAdmeResponse == [post |-> FALSE, code |-> FALSE, csv |-> FALSE, rows |-> <<>>]

\* an Optional configuration value: <<is not None, value>>
Unset == <<FALSE, 0>>
Configured(value) == <<TRUE, value>>

(***************************************************************************)
(* Table operations shared by the filters and the merges                   *)
(***************************************************************************)
\* a cell of a column read from a file: a number, text, or the empty cell
Num(n) == <<"num", n>>
Text == <<"text", 0>>
NaNCell == <<"nan", 0>>

\* the empty cell of a text column
NaN == "NaN"

\* pd.to_numeric(errors="coerce")
to_numeric(cell) == IF cell[1] = "num" THEN cell ELSE NaNCell

\* mutant: the comparison admits the threshold itself
Over_OrEqual(cell, threshold) == cell[1] = "num" /\ cell[2] >= threshold

\* column > threshold, False on NaN
Over(cell, threshold) == cell[1] = "num" /\ cell[2] > threshold

\* a filter that is skipped when its threshold is None
FilterOver(rows, column, threshold) ==
    IF threshold[1] THEN SelectSeq(rows, LAMBDA row : Over(row[column], threshold[2]))
    ELSE rows

RECURSIVE Flatten(_)
\* pd.concat(frames, ignore_index=True) on the rows
Flatten(frames) ==
    IF frames = <<>> THEN <<>> ELSE Head(frames) \o Flatten(Tail(frames))

\* DataFrame.drop_duplicates(subset): the first row of every key stays (NaN
\* cells count as equal); the empty subset is None, the whole row the key
drop_duplicates(rows, subset) ==
    LET Key(row) == IF subset = {} THEN row ELSE [c \in subset |-> row[c]]
        first == {i \in 1..Len(rows) : \A j \in 1..(i - 1) : Key(rows[j]) # Key(rows[i])}
        F[i \in 0..Len(rows)] ==
            IF i = 0 THEN <<>>
            ELSE IF i \in first THEN Append(F[i - 1], rows[i]) ELSE F[i - 1]
    IN F[Len(rows)]

\* pd.merge(left, right, left_on, right_on, how), as the pairs of rows it
\* puts side by side: for every left row, in order, one pair per right row
\* with the same key cells; under how = "left" a left row without match is
\* kept once, beside the all-NaN right row `none`
Merge(left, right, left_on, right_on, how, none) ==
    Flatten([i \in 1..Len(left) |->
        LET m == SelectSeq(right, LAMBDA r :
                    \A k \in 1..Len(left_on) : left[i][left_on[k]] = r[right_on[k]]) IN
        IF m = <<>>
        THEN IF how = "left" THEN <<<<left[i], none>>>> ELSE <<>>
        ELSE [k \in 1..Len(m) |-> <<left[i], m[k]>>]])

\* a <herb>_<kind>.csv file, or its absence
NoFile == [exists |-> FALSE, rows |-> <<>>]
CsvFile(rows) == [exists |-> TRUE, rows |-> rows]

\* the non-empty sequences of at most n rows (no file is saved without data)
Tables(universe, n) == {CsvFile(r) : r \in SeqsUpTo(universe, n) \ {<<>>}}

\* the thresholds of the TCMSP, HerbAC and PubChem filters left at null
FiltersUnset ==
    /\ filter_tcmsp = [ob |-> Unset, dl |-> Unset]
    /\ filter_herbac = [weight |-> Unset]
    /\ filter_pubchem = [xlogp |-> Unset, hbonddonor |-> Unset, hbondacc |-> Unset]

\* an unhandled exception ends the run
\* requests.get / requests.post / session.get / session.post, k times in a
\* row: pending says that a request has been sent and no time.sleep has run
\* since, back_to_back that some request was sent in that condition
Sent(n, k) ==
    [pending |-> n.pending \/ k >= 1,
     back_to_back |-> n.back_to_back \/ (n.pending /\ k >= 1) \/ k >= 2]

\* time.sleep
Slept(n) == [n EXCEPT !.pending = FALSE]

Crash(e, where) ==
    /\ pc' = "crashed"
    /\ err' = e
    /\ err_in' = where

\* mutant: the early return on an empty token is missing
TokenUsable_NoCheck(token) == TRUE

\* line 307: "if not token" is the negation of this
TokenUsable(token) == token # ""

\* mutant: the append is lost
TcmspRecordHerb_Lost(list, herb_name) == list

\* lines 330 and 344: self.success_herbs.append / self.failure_herbs.append
TcmspRecordHerb(list, herb_name) == Append(list, herb_name)

\* download_herbs_data, lines 304-313: the token, or the early return
TcmspFetchToken ==
    /\ pc = "tcmsp_token"
    /\ \E token \in TcmspTokens :
        /\ tcmsp_token' = token
        /\ IF ~TokenUsable(token)
           THEN /\ tcmsp_ret' = "EmptyDataFrame"
                /\ pc' = "print_status1"
           ELSE /\ tcmsp_ret' = tcmsp_ret
                /\ pc' = "tcmsp_collect"
    /\ UNCHANGED <<configVars, predictVars, tableVars, err, err_in, tcmsp_herb_names, tcmsp_i,
                   tcmsp_info_list, tcmsp_info_from, tcmsp_j, tcmsp_success_herbs,
                   tcmsp_failure_herbs, tcmsp_status, tcmsp_status_set,
                   tcmsp_files, tcmsp_requests, herbacVars, swissVars>>
    /\ net' = Sent(net, 1)

\* download_herbs_data, lines 315-347: one iteration of the collecting loop
TcmspCollectHerb ==
    /\ pc = "tcmsp_collect"
    /\ IF tcmsp_i > Len(tcmsp_herb_names)
       THEN /\ pc' = "tcmsp_process"
            /\ UNCHANGED <<tcmsp_i, tcmsp_info_list, tcmsp_info_from, tcmsp_success_herbs,
                           tcmsp_failure_herbs, tcmsp_requests>>
       ELSE LET herb_name == Strip(tcmsp_herb_names[tcmsp_i]) IN
            /\ pc' = pc
            /\ tcmsp_i' = tcmsp_i + 1
            /\ IF herb_name = <<>>
               THEN UNCHANGED <<tcmsp_info_list, tcmsp_info_from, tcmsp_success_herbs,
                                tcmsp_failure_herbs, tcmsp_requests>>
               ELSE \E page \in TcmspSearchPages :
                    LET herb_info_list == fetch_herb_info(herb_name, page, exact_match) IN
                    /\ tcmsp_requests' =
                         [tcmsp_requests EXCEPT !.search = @ + 1]
                    /\ IF herb_info_list # <<>>
                       THEN /\ tcmsp_info_list' = tcmsp_info_list \o herb_info_list
                            /\ tcmsp_info_from' =
                                 tcmsp_info_from \o
                                 [k \in 1..Len(herb_info_list) |-> tcmsp_i]
                            /\ tcmsp_success_herbs' =
                                 TcmspRecordHerb(tcmsp_success_herbs, herb_name)
                            /\ UNCHANGED tcmsp_failure_herbs
                       ELSE /\ tcmsp_info_list' =
                                 Append(tcmsp_info_list, TcmspPlaceholder(herb_name))
                            /\ tcmsp_info_from' = Append(tcmsp_info_from, tcmsp_i)
                            /\ tcmsp_failure_herbs' =
                                 TcmspRecordHerb(tcmsp_failure_herbs, herb_name)
                            /\ UNCHANGED tcmsp_success_herbs
    /\ UNCHANGED <<configVars, predictVars, tableVars, err, err_in, tcmsp_herb_names, tcmsp_token,
                   tcmsp_j, tcmsp_status, tcmsp_status_set, tcmsp_ret,
                   tcmsp_files, herbacVars, swissVars>>
    /\ net' = Sent(net, tcmsp_requests'.search - tcmsp_requests.search)

\* download_herbs_data, lines 350-388: one iteration of the processing loop,
\* and after the last one the assignment of download_status
TcmspProcessHerb ==
    /\ pc = "tcmsp_process"
    /\ IF tcmsp_j > Len(tcmsp_info_list)
       THEN /\ tcmsp_status_set' = TRUE
            /\ tcmsp_ret' = "None"
            /\ pc' = "print_status1"
            /\ UNCHANGED <<err, err_in, tcmsp_j, tcmsp_status, tcmsp_files,
                           tcmsp_requests>>
       ELSE LET herb_info == tcmsp_info_list[tcmsp_j] IN
            IF ~herb_info.downloadable
            THEN /\ tcmsp_status' = tcmsp_status \o FailureRows(herb_info)
                 /\ tcmsp_j' = tcmsp_j + 1
                 /\ UNCHANGED <<pc, err, err_in, tcmsp_status_set, tcmsp_ret,
                                tcmsp_files, tcmsp_requests>>
            ELSE IF tcmsp_j > Len(tcmsp_herb_names)
            THEN \* self.herb_names[index] past the end of the list
                 /\ Crash("IndexError", "Tcmsp.download_herbs_data")
                 /\ UNCHANGED <<tcmsp_j, tcmsp_status, tcmsp_status_set,
                                tcmsp_ret, tcmsp_files, tcmsp_requests>>
            ELSE \E page \in TcmspHerbPages :
                 /\ tcmsp_requests' = [tcmsp_requests EXCEPT !.download = @ + 1]
                 /\ tcmsp_status' =
                      tcmsp_status \o download_single_herb(herb_info, page)
                 /\ tcmsp_files' =
                      WriteFiles(tcmsp_files,
                                 SavedFiles(tcmsp_herb_names[tcmsp_j], herb_info, page))
                 /\ tcmsp_j' = tcmsp_j + 1
                 /\ UNCHANGED <<pc, err, err_in, tcmsp_status_set, tcmsp_ret>>
    /\ UNCHANGED <<configVars, predictVars, tableVars, tcmsp_herb_names, tcmsp_token, tcmsp_i,
                   tcmsp_info_list, tcmsp_info_from, tcmsp_success_herbs,
                   tcmsp_failure_herbs, herbacVars, swissVars>>
    /\ net' = Sent(net, tcmsp_requests'.download - tcmsp_requests.download)

(***************************************************************************)
(* HerbAC                                                                  *)
(***************************************************************************)
\* rows of res_data in the answer of search_api; the first row is the header
HerbacHeader ==
    [herb_id |-> <<105, 100>>, herb_pinyin |-> <<112, 121>>,
     herb_cn_name |-> <<99, 110>>, herb_en_name |-> <<101, 110>>,
     herb_latin_name |-> <<108, 97>>, downloadable |-> TRUE]
HerbacRenShen ==
    [herb_id |-> <<72, 49>>, herb_pinyin |-> Upper(Renshen),
     herb_cn_name |-> RenShen, herb_en_name |-> Ginseng,
     herb_latin_name |-> <<80, 97, 110, 97, 120>>, downloadable |-> TRUE]
HerbacRenShenYe ==
    [herb_id |-> <<72, 50>>, herb_pinyin |-> Upper(Renshenye),
     herb_cn_name |-> RenShenYe, herb_en_name |-> GinsengLeaf,
     herb_latin_name |-> <<80, 97, 110, 97, 120>>, downloadable |-> TRUE]

\* What __make_request gives for a search: ok = FALSE is the re-raised
\* RequestException.
HerbacSearchResponses ==
    {[ok |-> FALSE, res_data |-> <<>>],
     [ok |-> TRUE, res_data |-> <<>>],
     [ok |-> TRUE, res_data |-> <<HerbacHeader, HerbacRenShenYe>>],
     [ok |-> TRUE, res_data |-> <<HerbacHeader, HerbacRenShenYe, HerbacRenShen>>]}

\* What __make_request gives for detail_api: herb_ingredient is the number of
\* entries of the answer's list, its header row included (0: no list).
HerbacDetailResponses ==
    {[ok |-> FALSE, herb_ingredient |-> 0],
     [ok |-> TRUE, herb_ingredient |-> 0],
     [ok |-> TRUE, herb_ingredient |-> 1],
     [ok |-> TRUE, herb_ingredient |-> 3]}

\* list[1:]
Rest(list) == IF list = <<>> THEN <<>> ELSE Tail(list)

\* __get_herb_info on an answered request: the first row one of whose five
\* names is herb_name or herb_name.upper(), as a one-element list; <<>> is None
get_herb_info(herb_name, res_data) ==
    LET names(item) == <<item.herb_id, item.herb_pinyin, item.herb_cn_name,
                         item.herb_en_name, item.herb_latin_name>>
        hits == SelectSeq(Rest(res_data),
                          LAMBDA item : \/ InList(herb_name, names(item))
                                        \/ InList(Upper(herb_name), names(item)))
    IN  IF hits = <<>> THEN <<>> ELSE <<Head(hits)>>

HerbacPlaceholder(herb_name) ==
    [herb_id |-> <<>>, herb_pinyin |-> <<>>, herb_cn_name |-> herb_name,
     herb_en_name |-> <<>>, herb_latin_name |-> <<>>, downloadable |-> FALSE]

\* __save_to_csv: True exactly when there are data rows
save_to_csv(rows) == rows > 0

\* load_herb_ingredient on an answered request: <<>> is None, else the one
\* download_info
load_herb_ingredient(herb_info, ingredients) ==
    IF ingredients = 0 THEN <<>>
    ELSE <<StatusRow(herb_info, "ingredients", save_to_csv(ingredients - 1),
                     ingredients)>>

\* line 907: the names the collecting loop passes over
HerbacSkips(herb_name) == herb_name = <<>> \/ ~is_chinese_char(herb_name[1])

\* mutant: the append is lost
HerbacRecordHerb_Lost(list, herb_name) == list

\* lines 920 and 935: self.success_herbs.append / self.failure_herbs.append
HerbacRecordHerb(list, herb_name) == Append(list, herb_name)

\* download_herbs_data, lines 902-938: one iteration of the collecting loop
HerbacCollectHerb ==
    /\ pc = "herbac_collect"
    /\ IF herbac_i > Len(herbac_herb_names)
       THEN /\ pc' = "herbac_process"
            /\ UNCHANGED <<err, err_in, herbac_i, herbac_info_list,
                           herbac_success_herbs, herbac_failure_herbs,
                           herbac_requests>>
       ELSE LET herb_name == Strip(herbac_herb_names[herbac_i]) IN
            IF HerbacSkips(herb_name)
            THEN /\ herbac_i' = herbac_i + 1
                 /\ UNCHANGED <<pc, err, err_in, herbac_info_list,
                                herbac_success_herbs, herbac_failure_herbs,
                                herbac_requests>>
            ELSE \E response \in HerbacSearchResponses :
                 /\ herbac_requests' = [herbac_requests EXCEPT !.search = @ + 1]
                 /\ IF ~response.ok
                    THEN /\ Crash("RequestException", "HerbAC.download_herbs_data")
                         /\ UNCHANGED <<herbac_i, herbac_info_list,
                                        herbac_success_herbs, herbac_failure_herbs>>
                    ELSE LET herb_info == get_herb_info(herb_name, response.res_data) IN
                         /\ herbac_i' = herbac_i + 1
                         /\ UNCHANGED <<pc, err, err_in>>
                         /\ IF herb_info # <<>>
                            THEN /\ herbac_info_list' = herbac_info_list \o herb_info
                                 /\ herbac_success_herbs' =
                                      HerbacRecordHerb(herbac_success_herbs, herb_name)
                                 /\ UNCHANGED herbac_failure_herbs
                            ELSE /\ herbac_info_list' =
                                      Append(herbac_info_list,
                                             HerbacPlaceholder(herb_name))
                                 /\ herbac_failure_herbs' =
                                      HerbacRecordHerb(herbac_failure_herbs, herb_name)
                                 /\ UNCHANGED herbac_success_herbs
    /\ UNCHANGED <<configVars, predictVars, tableVars, herbac_herb_names, herbac_j, herbac_status,
                   herbac_files, tcmspVars, swissVars>>
    /\ net' = Sent(net, herbac_requests'.search - herbac_requests.search)

\* download_herbs_data, lines 941-976: one iteration of the processing loop,
\* and after the last one the assignment of download_status
HerbacProcessHerb ==
    /\ pc = "herbac_process"
    /\ IF herbac_j > Len(herbac_info_list)
       THEN /\ pc' = "predict_targets"
            /\ UNCHANGED <<err, err_in, herbac_j, herbac_status, herbac_files,
                           herbac_requests>>
       ELSE LET herb_info == herbac_info_list[herbac_j] IN
            IF ~herb_info.downloadable
            THEN /\ herbac_status' = herbac_status \o FailureRows(herb_info)
                 /\ herbac_j' = herbac_j + 1
                 /\ UNCHANGED <<pc, err, err_in, herbac_files, herbac_requests>>
            ELSE \E response \in HerbacDetailResponses :
                 LET download_info ==
                        load_herb_ingredient(herb_info, response.herb_ingredient) IN
                 /\ herbac_requests' = [herbac_requests EXCEPT !.detail = @ + 1]
                 /\ IF ~response.ok
                    THEN /\ Crash("RequestException", "HerbAC.download_herbs_data")
                         /\ UNCHANGED <<herbac_j, herbac_status, herbac_files>>
                    ELSE IF download_info = <<>>
                    THEN \* all_download_info.append(None); None["下载状态"]
                         /\ Crash("TypeError", "HerbAC.download_herbs_data")
                         /\ UNCHANGED <<herbac_j, herbac_status, herbac_files>>
                    ELSE /\ herbac_status' = herbac_status \o download_info
                         /\ herbac_files' =
                              IF save_to_csv(response.herb_ingredient - 1)
                              THEN WriteFiles(herbac_files,
                                     {File(herb_info.herb_cn_name, "ingredients",
                                           response.herb_ingredient - 1,
                                           herb_info.herb_cn_name)})
                              ELSE herbac_files
                         /\ herbac_j' = herbac_j + 1
                         /\ UNCHANGED <<pc, err, err_in>>
    /\ UNCHANGED <<configVars, predictVars, tableVars, herbac_herb_names, herbac_i,
                   herbac_info_list, herbac_success_herbs, herbac_failure_herbs,
                   tcmspVars, swissVars>>
    /\ net' = Sent(net, herbac_requests'.detail - herbac_requests.detail)

(***************************************************************************)
(* The driver: __main__ of autonp_engine.py                                *)
(***************************************************************************)
\* os.path.exists of <name>_<kind>.csv
FileExists(files, name, kind) == \E f \in files : f.name = name /\ f.kind = kind

\* step 1, second statement: print(autonp.tcmsp.download_status); the
\* attribute exists only once download_herbs_data has assigned it
DriverPrintTcmspStatus ==
    /\ pc = "print_status1"
    /\ IF tcmsp_status_set
       THEN pc' = "match_targets" /\ UNCHANGED <<err, err_in>>
       ELSE Crash("AttributeError", "__main__")
    /\ UNCHANGED <<net, configVars, predictVars, tableVars, tcmspVars, herbacVars, swissVars>>

\* step 2: Tcmsp.match_targets. With herbs in success_herbs, the merge on
\* (MOL_ID, Herb) needs those columns on both sides: a side none of whose
\* files exists is a DataFrame without columns and the merge raises.
DriverMatchTargets ==
    /\ pc = "match_targets"
    /\ IF /\ tcmsp_success_herbs # <<>>
          /\ \/ \A i \in 1..Len(tcmsp_success_herbs) :
                    ~FileExists(tcmsp_files, tcmsp_success_herbs[i], "ingredients")
             \/ \A i \in 1..Len(tcmsp_success_herbs) :
                    ~FileExists(tcmsp_files, tcmsp_success_herbs[i], "targets")
       THEN Crash("KeyError", "Tcmsp.match_targets")
       ELSE pc' = "set_herbac" /\ UNCHANGED <<err, err_in>>
    /\ UNCHANGED <<net, configVars, predictVars, tableVars, tcmspVars, herbacVars, swissVars>>

\* mutant: HerbAC keeps the configured herb list
SupplementHerbs_Configured(failure_herbs, configured_herbs) == configured_herbs

\* line 120: the list HerbAC is given, of the two the driver holds
SupplementHerbs(failure_herbs, configured_herbs) == failure_herbs

\* step 3: autonp.herbac.herb_names = autonp.tcmsp.failure_herbs
DriverSetHerbacNames ==
    /\ pc = "set_herbac"
    /\ herbac_herb_names' = SupplementHerbs(tcmsp_failure_herbs, herbac_herb_names)
    /\ pc' = "herbac_collect"
    /\ UNCHANGED <<net, configVars, predictVars, tableVars, err, err_in, herbac_i, herbac_info_list,
                   herbac_j, herbac_success_herbs, herbac_failure_herbs,
                   herbac_status, herbac_files, herbac_requests, tcmspVars,
                   swissVars>>

\* step 5, first statement of HerbAC.predict_targets: pd.concat of the
\* ingredient tables of success_herbs raises on an empty list
DriverPredictTargets ==
    /\ pc = "predict_targets"
    /\ IF herbac_success_herbs = <<>>
       THEN Crash("ValueError", "HerbAC.predict_targets")
       ELSE pc' = "predicting" /\ UNCHANGED <<err, err_in>>
    /\ UNCHANGED <<net, configVars, predictVars, tableVars, tcmspVars, herbacVars, swissVars>>

\* SwissPredict before process_smiles_dataframe is called
SwissIdle ==
    /\ swiss_pc = "idle"
    /\ swiss_input = <<>>
    /\ proxies_list = <<>>
    /\ swiss_fetches = 0
    /\ swiss_k = 1
    /\ swiss_success = FALSE
    /\ swiss_attempts = 0
    /\ swiss_session = 0
    /\ swiss_sessions = 0
    /\ swiss_proxy = ""
    /\ swiss_results = <<>>
    /\ swiss_failed = <<>>
    /\ swiss_log = <<>>
    /\ swiss_ret = <<>>

\* predict_targets before load_swissadme is called
PredictIdle ==
    /\ compounds_smiles = <<>>
    /\ adme_response = NoAdmeResponse
    /\ adme_csv = <<>>
    /\ swissadme_files = {}
    /\ swissadme_requests = [post |-> 0, download |-> 0]
    /\ predict_file = FALSE

\* no table has been read or built by match_targets or predict_targets
MatchIdle ==
    /\ ingredient_files = [h \in {RenShen, Ginseng} |-> NoFile]
    /\ target_files = [h \in {RenShen, Ginseng} |-> NoFile]
    /\ tcmsp_ingredients = <<>>
    /\ ingredient_target_match = <<>>
    /\ match_file = FALSE
    /\ herbac_ingredient_files = [h \in {RenShen, RenShenYe} |-> NoFile]
    /\ herbac_ingredients = <<>>

\* apply_filters has not been called
FiltersIdle ==
    /\ filters_df = <<>>
    /\ pubchem_compounds = <<>>
    /\ compounds_filtered = <<>>

\* match_gene has not been called
GeneIdle ==
    /\ tcmsp_target = NoFile
    /\ herbac_target = NoFile
    /\ uniprot_full_gene = <<>>
    /\ tcmsp_herbac_target = <<>>
    /\ target_gene = <<>>
    /\ protein_name = <<>>
    /\ protein_clean = <<>>

\* load_all_ingredients has not been called and the file is not there
ReferenceIdle ==
    /\ all_ingredients_file = NoFile
    /\ all_ingredients_requests = [sent |-> 0, answered |-> 0]
    /\ all_ingredients_calls = 0
    /\ herbac_all_ingredients = <<>>

\* no table operation has run
TablesIdle == MatchIdle /\ FiltersIdle /\ GeneIdle /\ ReferenceIdle

\* Tcmsp.__init__ and HerbAC.__init__ on the configuration
AdaptersInit ==
    /\ err = ""
    /\ err_in = ""
    /\ net = [pending |-> FALSE, back_to_back |-> FALSE]
    /\ tcmsp_herb_names = herbs
    /\ tcmsp_token = "unset"
    /\ tcmsp_i = 1
    /\ tcmsp_info_list = <<>>
    /\ tcmsp_info_from = <<>>
    /\ tcmsp_j = 1
    /\ tcmsp_success_herbs = <<>>
    /\ tcmsp_failure_herbs = <<>>
    /\ tcmsp_status = <<>>
    /\ tcmsp_status_set = FALSE
    /\ tcmsp_ret = "unset"
    /\ tcmsp_files = {}
    /\ tcmsp_requests = [search |-> 0, download |-> 0]
    /\ herbac_herb_names = herbs
    /\ herbac_i = 1
    /\ herbac_info_list = <<>>
    /\ herbac_j = 1
    /\ herbac_success_herbs = <<>>
    /\ herbac_failure_herbs = <<>>
    /\ herbac_status = <<>>
    /\ herbac_files = {}
    /\ herbac_requests = [search |-> 0, detail |-> 0]

\* AutoNP("config.yaml"): any herb list, either matching mode
Init ==
    /\ herbs \in SeqsUpTo(HerbNameUniverse, MaxHerbs)
    /\ exact_match \in BOOLEAN
    /\ filter_swiss_prob = Unset
    /\ FiltersUnset
    /\ pc = "tcmsp_token"
    /\ AdaptersInit
    /\ SwissIdle
    /\ PredictIdle
    /\ swiss_adme = None
    /\ TablesIdle

Next ==
    \/ TcmspFetchToken
    \/ TcmspCollectHerb
    \/ TcmspProcessHerb
    \/ DriverPrintTcmspStatus
    \/ DriverMatchTargets
    \/ DriverSetHerbacNames
    \/ HerbacCollectHerb
    \/ HerbacProcessHerb
    \/ DriverPredictTargets

Spec == Init /\ [][Next]_vars

(***************************************************************************)
(* SwissPredict                                                            *)
(***************************************************************************)
max_retries == 2

\* the column predict_targets passes as smiles_column_name
smiles_column_name == "Canonical SMILES"

SmilesUniverse == {"CCO", "CCN"}
ProxyUniverse == {"http://1.1.1.1:80", "http://2.2.2.2:80"}

\* What the proxy API answers: ok = FALSE is a status other than 200 or an
\* exception, lines the answer's text split at "\n" ("" is a blank line).
ProxyApiResponses ==
    {[ok |-> FALSE, lines |-> <<>>]}
    \cup {[ok |-> TRUE, lines |-> l] : l \in SeqsUpTo(ProxyUniverse, MaxProxies)}
    \cup {[ok |-> TRUE, lines |-> <<"">>]}

\* fetch_proxies: the new value of self.proxies_list
fetch_proxies(old, response) ==
    IF response.ok
    THEN SelectSeq(response.lines, LAMBDA proxy : proxy # "")
    ELSE old

\* What the prediction site answers to one attempt: the POST's status, the
\* job id in its script, the GET's status, the result table and the values of
\* its "Probability*" column (in percent).
SwissResponses ==
    {[post |-> FALSE, job |-> FALSE, get |-> FALSE, table |-> FALSE, probs |-> <<>>],
     [post |-> TRUE, job |-> FALSE, get |-> FALSE, table |-> FALSE, probs |-> <<>>],
     [post |-> TRUE, job |-> TRUE, get |-> FALSE, table |-> FALSE, probs |-> <<>>],
     [post |-> TRUE, job |-> TRUE, get |-> TRUE, table |-> FALSE, probs |-> <<>>],
     [post |-> TRUE, job |-> TRUE, get |-> TRUE, table |-> TRUE, probs |-> <<0, 50>>],
     [post |-> TRUE, job |-> TRUE, get |-> TRUE, table |-> TRUE, probs |-> <<100>>]}

\* SwissPredict.__init__: self.prob = 0 (in percent)
SwissProb == <<TRUE, 0>>

\* SwissFilterConfig.prob: null, or a threshold (in percent)
SwissProbConfigs == {Unset, Configured(0), Configured(50)}

\* filter_by_probability with self.prob = <<is not None, value>>
filter_by_probability(probs, prob) ==
    IF prob[1] THEN SelectSeq(probs, LAMBDA x : x > prob[2]) ELSE probs

\* process_smiles: raised = TRUE when one of its four steps raises
process_smiles(response) ==
    IF response.post /\ response.job /\ response.get /\ response.table
    THEN [raised |-> FALSE, rows |-> filter_by_probability(response.probs, SwissProb)]
    ELSE [raised |-> TRUE, rows |-> <<>>]

\* list.remove(x): the first occurrence goes
RECURSIVE RemoveFirst(_, _)
RemoveFirst(list, x) ==
    IF list = <<>> THEN <<>>
    ELSE IF Head(list) = x THEN Tail(list)
    ELSE <<Head(list)>> \o RemoveFirst(Tail(list), x)

\* the header cells of the site's result table
ResultTableHeaders ==
    <<"Target", "Common name", "Uniprot ID", "ChEMBL ID", "Target Class",
      "Probability*", "Known actives (3D/2D)">>

\* lines 1587-1602: the concatenated results (each a result table with the
\* SMILES column added), or the empty frame with the listed columns
success_df(results) ==
    IF results # <<>>
    THEN DataFrame(Append(ResultTableHeaders, smiles_column_name), results)
    ELSE DataFrame(ResultTableHeaders \o <<"Canonical SMILES", smiles_column_name>>,
                   <<>>)

\* lines 1604-1607
failure_df(failed) == DataFrame(<<smiles_column_name, "Error">>, failed)

\* lines 1526-1535: the proxy list is fetched; an empty list ends the run
SwissFetchProxies ==
    /\ swiss_pc = "start"
    /\ \E response \in ProxyApiResponses :
        LET fetched == fetch_proxies(proxies_list, response) IN
        /\ proxies_list' = fetched
        /\ swiss_fetches' = swiss_fetches + 1
        /\ IF fetched = <<>>
           THEN /\ swiss_ret' = <<None, None>>
                /\ swiss_pc' = "returned"
           ELSE /\ swiss_ret' = swiss_ret
                /\ swiss_pc' = "for"
    /\ UNCHANGED <<swiss_input, swiss_k, swiss_success, swiss_attempts,
                   swiss_session, swiss_sessions, swiss_proxy, swiss_results,
                   swiss_failed, swiss_log, driverVars, tcmspVars, herbacVars, predictVars, tableVars>>
    /\ net' = Sent(net, 1)

\* lines 1536-1539 and 1586-1609: the SMILES column is read off the frame;
\* then the next compound, or the two tables
SwissForCompound ==
    /\ swiss_pc = "for"
    /\ IF ~InList(smiles_column_name, swiss_adme.columns)
       THEN \* df[smiles_column_name] on a frame without that column
            /\ Crash("KeyError", "SwissPredict.process_smiles_dataframe")
            /\ swiss_pc' = "raised"
            /\ UNCHANGED <<swiss_ret, swiss_success, swiss_attempts>>
       ELSE IF swiss_k > Len(swiss_input)
       THEN /\ swiss_ret' = <<success_df(swiss_results), failure_df(swiss_failed)>>
            /\ swiss_pc' = "returned"
            /\ UNCHANGED <<pc, err, err_in, swiss_success, swiss_attempts>>
       ELSE /\ swiss_success' = FALSE
            /\ swiss_attempts' = 0
            /\ swiss_pc' = "while"
            /\ UNCHANGED <<pc, err, err_in, swiss_ret>>
    /\ UNCHANGED <<net, swiss_input, proxies_list, swiss_fetches, swiss_k,
                   swiss_session, swiss_sessions, swiss_proxy, swiss_results,
                   swiss_failed, swiss_log, configVars, tcmspVars, herbacVars,
                   predictVars, tableVars>>

\* mutant: a compound without a success is not recorded
SwissAfterWhile_Dropped(success) ==
    /\ swiss_failed' = swiss_failed
    /\ swiss_k' = swiss_k + 1
    /\ net' = Slept(net)
    /\ swiss_pc' = "for"

\* lines 1577-1584: after the while loop
SwissAfterWhile(success) ==
    /\ swiss_failed' =
         IF success THEN swiss_failed
         ELSE Append(swiss_failed,
                     [smiles |-> swiss_input[swiss_k],
                      Error |-> "Failed after 2 attempts"])
    /\ swiss_k' = swiss_k + 1
    /\ net' = Slept(net)
    /\ swiss_pc' = "for"

\* mutant: the loop does not stop at a success
WhileCondition_IgnoresSuccess(success, attempts) == attempts < max_retries

\* line 1540: the while condition
WhileCondition(success, attempts) == ~success /\ attempts < max_retries

\* lines 1540-1584: one test of the while condition, with the attempt it
\* admits or the exit it takes
SwissWhile ==
    /\ swiss_pc = "while"
    /\ IF ~WhileCondition(swiss_success, swiss_attempts)
       THEN /\ SwissAfterWhile(swiss_success)
            /\ UNCHANGED <<proxies_list, swiss_success, swiss_attempts,
                           swiss_session, swiss_sessions, swiss_proxy,
                           swiss_results, swiss_log>>
       ELSE /\ swiss_attempts' = swiss_attempts + 1
            /\ swiss_sessions' = swiss_sessions + 1
            /\ swiss_session' = swiss_sessions + 1
            /\ IF proxies_list = <<>>
               THEN \* break
                    /\ SwissAfterWhile(swiss_success)
                    /\ UNCHANGED <<proxies_list, swiss_success, swiss_proxy,
                                   swiss_results, swiss_log>>
               ELSE \E proxy \in Elems(proxies_list), response \in SwissResponses :
                    LET r == process_smiles(response) IN
                    /\ swiss_proxy' = proxy
                    /\ swiss_log' =
                         Append(swiss_log,
                                [k |-> swiss_k, session |-> swiss_sessions + 1,
                                 proxy |-> proxy, failed |-> r.raised,
                                 table |-> response.probs, rows |-> r.rows])
                    /\ IF r.raised
                       THEN /\ proxies_list' = RemoveFirst(proxies_list, proxy)
                            /\ net' = Slept(Sent(net, IF response.post /\ response.job
                                                      THEN 2 ELSE 1))
                            /\ UNCHANGED <<swiss_success, swiss_results>>
                       ELSE /\ swiss_results' =
                                 Append(swiss_results,
                                        [smiles |-> swiss_input[swiss_k],
                                         rows |-> r.rows])
                            /\ swiss_success' = TRUE
                            /\ net' = Sent(net, 2)
                            /\ UNCHANGED proxies_list
                    /\ UNCHANGED <<swiss_failed, swiss_k, swiss_pc>>
    /\ UNCHANGED <<swiss_input, swiss_fetches, swiss_ret, driverVars, tcmspVars,
                   herbacVars, predictVars, tableVars>>

\* SwissPredict().process_smiles_dataframe(df, "Canonical SMILES") on any
\* SMILES column
InitSwiss ==
    /\ herbs = <<>>
    /\ exact_match = FALSE
    /\ filter_swiss_prob \in SwissProbConfigs
    /\ FiltersUnset
    /\ pc = "predicting"
    /\ AdaptersInit
    /\ swiss_pc = "start"
    /\ swiss_input \in SeqsUpTo(SmilesUniverse, MaxSmiles)
    /\ proxies_list = <<>>
    /\ swiss_fetches = 0
    /\ swiss_k = 1
    /\ swiss_success = FALSE
    /\ swiss_attempts = 0
    /\ swiss_session = 0
    /\ swiss_sessions = 0
    /\ swiss_proxy = ""
    /\ swiss_results = <<>>
    /\ swiss_failed = <<>>
    /\ swiss_log = <<>>
    /\ swiss_ret = <<>>
    /\ PredictIdle
    /\ swiss_adme = DataFrame(SwissAdmeColumns, swiss_input)
    /\ TablesIdle

NextSwiss ==
    \/ SwissFetchProxies
    \/ SwissForCompound
    \/ SwissWhile

SpecSwiss == InitSwiss /\ [][NextSwiss]_vars

\* the call runs on: the interpreter executes the next statement
SpecSwissLive == SpecSwiss /\ WF_vars(NextSwiss)

(***************************************************************************)
(* HerbAC.predict_targets from load_swissadme on (SpecPredict)             *)
(***************************************************************************)
\* What the SwissADME site answers to one batch: post = FALSE is a failed
\* POST, code whether the page names results/<code>/swissadme.csv, csv
\* whether the request for that file succeeds, rows the Canonical SMILES of
\* the file's rows that pass the violation and absorption filter.
SwissAdmeResponses ==
    {NoAdmeResponse,
     [post |-> TRUE, code |-> FALSE, csv |-> FALSE, rows |-> <<>>],
     [post |-> TRUE, code |-> TRUE, csv |-> FALSE, rows |-> <<>>]}
    \cup {[post |-> TRUE, code |-> TRUE, csv |-> TRUE, rows |-> r] :
            r \in SeqsUpTo(SmilesUniverse, MaxSmiles)}

\* mutant: the result code is not looked for
ResultCodeFound_NoCheck(response) == TRUE

\* lines 1195-1196: re.search(r"results/(\d+)/swissadme\.csv", response.text)
ResultCodeFound(response) == response.code

\* line 1198: the frame returned when no result code is found
NoResultFrame == DataFrame(<<>>, <<>>)

\* load_swissadme: the exception it lets through or the frame it returns,
\* with the requests it sent and whether it saved the result file
load_swissadme(response) ==
    IF ~response.post
    THEN [raised |-> TRUE, df |-> None, downloads |-> 0, saved |-> FALSE]
    ELSE IF ~ResultCodeFound(response)
    THEN [raised |-> FALSE, df |-> NoResultFrame, downloads |-> 0, saved |-> FALSE]
    ELSE IF ~response.csv
    THEN [raised |-> TRUE, df |-> None, downloads |-> 1, saved |-> FALSE]
    ELSE [raised |-> FALSE, df |-> DataFrame(SwissAdmeColumns, response.rows),
          downloads |-> 1, saved |-> TRUE]

\* df[column] as process_smiles_dataframe will read it
Column(df, column) == IF InList(column, df.columns) THEN df.rows ELSE <<>>

\* predict_targets, lines 1036-1044: the batch goes to SwissADME and the
\* returned frame is handed to SwissPredict().process_smiles_dataframe
PredictLoadSwissadme ==
    /\ pc = "load_swissadme"
    /\ \E response \in SwissAdmeResponses :
        LET r == load_swissadme(response) IN
        /\ adme_response' = response
        /\ swissadme_requests' =
             [post |-> swissadme_requests.post + 1,
              download |-> swissadme_requests.download + r.downloads]
        /\ swissadme_files' =
             IF r.saved THEN swissadme_files \cup {"code"} ELSE swissadme_files
        /\ IF r.raised
           THEN /\ Crash("RequestException", "HerbAC.load_swissadme")
                /\ UNCHANGED <<swiss_adme, swiss_pc, swiss_input>>
           ELSE /\ swiss_adme' = r.df
                /\ swiss_input' = Column(r.df, smiles_column_name)
                /\ swiss_pc' = "start"
                /\ pc' = "predicting"
                /\ UNCHANGED <<err, err_in>>
    /\ UNCHANGED <<configVars, compounds_smiles, adme_csv, predict_file, proxies_list,
                   swiss_fetches, swiss_k, swiss_success, swiss_attempts,
                   swiss_session, swiss_sessions, swiss_proxy, swiss_results,
                   swiss_failed, swiss_log, swiss_ret, tcmspVars, herbacVars,
                   tableVars>>
    /\ net' = Sent(net, (swissadme_requests'.post - swissadme_requests.post)
                      + (swissadme_requests'.download - swissadme_requests.download))

\* a column label that occurs more than once in a frame
DuplicateLabel(df, column) == Count(column, df.columns) > 1

\* predict_targets, lines 1046-1073: the two merges and the saved file
PredictMergeTargets ==
    /\ pc = "predicting"
    /\ swiss_pc = "returned"
    /\ IF ~(InList("Formula", swiss_adme.columns)
            /\ InList("Canonical SMILES", swiss_adme.columns))
       THEN \* swiss_adme[["Formula", "Canonical SMILES"]]
            Crash("KeyError", "HerbAC.predict_targets") /\ UNCHANGED predict_file
       ELSE IF swiss_ret[1].none
       THEN \* success_swiss_target[[...]] on None
            Crash("TypeError", "HerbAC.predict_targets") /\ UNCHANGED predict_file
       ELSE IF DuplicateLabel(swiss_ret[1], "Canonical SMILES")
       THEN \* merge(on="Canonical SMILES") with a label that is not unique
            Crash("ValueError", "HerbAC.predict_targets") /\ UNCHANGED predict_file
       ELSE /\ predict_file' = TRUE
            /\ pc' = "match_gene"
            /\ UNCHANGED <<err, err_in>>
    /\ UNCHANGED <<net, configVars, compounds_smiles, adme_response, adme_csv, swiss_adme,
                   swissadme_files, swissadme_requests, swissVars, tcmspVars,
                   herbacVars, tableVars>>

\* predict_targets at line 1036, on any filtered compound table
InitPredict ==
    /\ herbs = <<>>
    /\ exact_match = FALSE
    /\ filter_swiss_prob = Unset
    /\ FiltersUnset
    /\ pc = "load_swissadme"
    /\ AdaptersInit
    /\ SwissIdle
    /\ compounds_smiles \in SeqsUpTo(SmilesUniverse, MaxSmiles)
    /\ adme_response = NoAdmeResponse
    /\ adme_csv = <<>>
    /\ swiss_adme = None
    /\ swissadme_files = {}
    /\ swissadme_requests = [post |-> 0, download |-> 0]
    /\ predict_file = FALSE
    /\ TablesIdle

NextPredict ==
    \/ PredictLoadSwissadme
    \/ SwissFetchProxies
    \/ SwissForCompound
    \/ SwissWhile
    \/ PredictMergeTargets

SpecPredict == InitPredict /\ [][NextPredict]_vars

(***************************************************************************)
(* Tcmsp.match_targets and the ingredient tables of HerbAC (SpecMatch)     *)
(***************************************************************************)
MaxRows == 2        \* most rows of a saved table

\* rows of a TCMSP ingredient file
IngredientRows ==
    {[MOL_ID |-> "MOL1", ob |-> Num(40), dl |-> Num(20)],
     [MOL_ID |-> "MOL1", ob |-> Num(30), dl |-> Num(20)],
     [MOL_ID |-> "MOL2", ob |-> Text, dl |-> Num(18)]}

\* rows of a TCMSP target file
TargetRows ==
    {[MOL_ID |-> "MOL1", target_name |-> "T1"],
     [MOL_ID |-> "MOL2", target_name |-> "T1"],
     [MOL_ID |-> "MOL1", target_name |-> NaN]}

\* rows of a HerbAC ingredient file
HerbacIngredientRows ==
    {[Ingredient_id |-> "HBIN1", Ingredient_name |-> "a"],
     [Ingredient_id |-> "HBIN1", Ingredient_name |-> "b"]}

\* the files of one kind under a save directory, by herb name: any table
\* for the first herb, no file or the table of the one row `other` for the
\* second
FileStores(first, second, universe, other) ==
    {[h \in {first, second} |-> IF h = first THEN a ELSE b] :
        a \in {NoFile} \cup Tables(universe, MaxRows),
        b \in {NoFile, CsvFile(<<other>>)}}

\* the lists success_herbs can be after a download of two herbs at most
SuccessLists(first, second) == {<<>>, <<first>>, <<first, second>>, <<first, first>>}

\* TCMSPFilterConfig: null or a threshold
TcmspFilterConfigs ==
    {[ob |-> o, dl |-> d] : o \in {Unset, Configured(30)},
                            d \in {Unset, Configured(18)}}

\* Tcmsp.__read_ingredients_files, lines 393-413
tcmsp_read_ingredients_files(herb_name, files) ==
    IF files[herb_name].exists
    THEN LET df == [i \in 1..Len(files[herb_name].rows) |->
                      [Herb |-> herb_name,
                       MOL_ID |-> files[herb_name].rows[i].MOL_ID,
                       ob |-> to_numeric(files[herb_name].rows[i].ob),
                       dl |-> to_numeric(files[herb_name].rows[i].dl)]]
         IN DataFrame(<<"MOL_ID", "ob", "dl", "Herb">>,
                      FilterOver(FilterOver(df, "ob", filter_tcmsp.ob),
                                 "dl", filter_tcmsp.dl))
    ELSE DataFrame(<<>>, <<>>)

\* Tcmsp.__read_targets_files, lines 417-425
read_targets_files(herb_name, files) ==
    IF files[herb_name].exists
    THEN DataFrame(<<"MOL_ID", "target_name", "Herb">>,
                   [i \in 1..Len(files[herb_name].rows) |->
                      [Herb |-> herb_name,
                       MOL_ID |-> files[herb_name].rows[i].MOL_ID,
                       target_name |-> files[herb_name].rows[i].target_name]])
    ELSE DataFrame(<<>>, <<>>)

\* HerbAC.__read_ingredients_files, lines 990-1000
herbac_read_ingredients_files(herb_name, files) ==
    IF files[herb_name].exists
    THEN DataFrame(<<"Ingredient id", "Ingredient name", "Herb">>,
                   [i \in 1..Len(files[herb_name].rows) |->
                      [Herb |-> herb_name,
                       Ingredient_id |-> files[herb_name].rows[i].Ingredient_id,
                       Ingredient_name |-> files[herb_name].rows[i].Ingredient_name]])
    ELSE DataFrame(<<>>, <<>>)

\* pd.concat(frames, ignore_index=True): the rows one after the other, the
\* columns those of the frames that have any
concat(frames) ==
    DataFrame(IF \E i \in 1..Len(frames) : frames[i].columns # <<>>
              THEN frames[CHOOSE i \in 1..Len(frames) : frames[i].columns # <<>>].columns
              ELSE <<>>,
              Flatten([i \in 1..Len(frames) |-> frames[i].rows]))

\* mutant: no row is dropped
drop_duplicate_rows_Kept(rows) == rows

\* lines 440 and 1010: drop_duplicates() without subset, the whole row the key
drop_duplicate_rows(rows) == drop_duplicates(rows, {})

\* match_targets, lines 433-440: the filtered ingredient tables of
\* success_herbs, concatenated, without duplicate rows
tcmsp_concat_ingredients(success_herbs, files) ==
    LET all == concat([i \in 1..Len(success_herbs) |->
                         tcmsp_read_ingredients_files(success_herbs[i], files)])
    IN DataFrame(all.columns, drop_duplicate_rows(all.rows))

\* mutant: rows without target name stay
HasTarget_Any(row) == TRUE

\* line 458: dropna(subset=["target_name"]) keeps these rows
HasTarget(row) == row.Target_Name # NaN

\* match_targets, lines 450-469: the merge on (MOL_ID, Herb), without the
\* rows that have no target name, one row per target name
merge_targets(ingredients, targets) ==
    LET pairs == Merge(ingredients, targets, <<"MOL_ID", "Herb">>, <<"MOL_ID", "Herb">>,
                       "left", [target_name |-> NaN])
        merged == [k \in 1..Len(pairs) |->
                     [Herb |-> pairs[k][1].Herb, MOL_ID |-> pairs[k][1].MOL_ID,
                      Target_Name |-> pairs[k][2].target_name,
                      OB |-> pairs[k][1].ob, DL |-> pairs[k][1].dl]]
        dropna == SelectSeq(merged, HasTarget)
    IN drop_duplicates(dropna, {"Target_Name"})

\* step 2: Tcmsp.match_targets, lines 427-475, on the files it finds under
\* save_directory
MatchTargets ==
    /\ pc = "match_targets"
    /\ \E ifiles \in FileStores(RenShen, Ginseng, IngredientRows,
                                  [MOL_ID |-> "MOL1", ob |-> Num(40), dl |-> Num(20)]),
          tfiles \in FileStores(RenShen, Ginseng, TargetRows,
                                  [MOL_ID |-> "MOL1", target_name |-> "T1"]) :
        /\ ingredient_files' = ifiles
        /\ target_files' = tfiles
        /\ IF tcmsp_success_herbs = <<>>
           THEN \* "if ingredients_list" is False: the empty frame
                /\ ingredient_target_match' = <<>>
                /\ pc' = "set_herbac"
                /\ UNCHANGED <<tcmsp_ingredients, match_file, err, err_in>>
           ELSE LET ingredients == tcmsp_concat_ingredients(tcmsp_success_herbs, ifiles)
                    targets == concat([i \in 1..Len(tcmsp_success_herbs) |->
                                 read_targets_files(tcmsp_success_herbs[i], tfiles)])
                IN
                /\ tcmsp_ingredients' = ingredients.rows
                /\ IF ingredients.columns = <<>> \/ targets.columns = <<>>
                   THEN \* merge on columns a frame does not have
                        /\ Crash("KeyError", "Tcmsp.match_targets")
                        /\ UNCHANGED <<ingredient_target_match, match_file>>
                   ELSE /\ ingredient_target_match' =
                             merge_targets(ingredients.rows, targets.rows)
                        /\ match_file' = TRUE
                        /\ pc' = "set_herbac"
                        /\ UNCHANGED <<err, err_in>>
    /\ UNCHANGED <<net, configVars, tcmspVars, herbacVars, swissVars, predictVars,
                   herbac_ingredient_files, herbac_ingredients, filterVars,
                   geneVars, referenceVars>>

\* step 5, lines 1004-1010 of HerbAC.predict_targets: the ingredient tables
\* of success_herbs, concatenated, without duplicate rows
HerbacConcatIngredients ==
    /\ pc = "predict_targets"
    /\ \E files \in FileStores(RenShen, RenShenYe, HerbacIngredientRows,
                                 [Ingredient_id |-> "HBIN1", Ingredient_name |-> "a"]) :
        /\ herbac_ingredient_files' = files
        /\ IF herbac_success_herbs = <<>>
           THEN \* pd.concat of an empty list
                /\ Crash("ValueError", "HerbAC.predict_targets")
                /\ UNCHANGED herbac_ingredients
           ELSE /\ herbac_ingredients' =
                     drop_duplicate_rows(
                        concat([i \in 1..Len(herbac_success_herbs) |->
                                  herbac_read_ingredients_files(
                                      herbac_success_herbs[i], files)]).rows)
                /\ pc' = "load_all_ingredients"
                /\ UNCHANGED <<err, err_in>>
    /\ UNCHANGED <<net, configVars, tcmspVars, herbacVars, swissVars, predictVars,
                   ingredient_files, target_files, tcmsp_ingredients,
                   ingredient_target_match, match_file, filterVars, geneVars,
                   referenceVars>>

\* the driver before step 2, after a TCMSP download that found every herb,
\* or before step 5, after a HerbAC download that found every herb TCMSP had
\* not, under any TCMSP filter (the info lists, status rows and request
\* counts of the downloads are not carried along)
InitMatch ==
    /\ pc \in {"match_targets", "predict_targets"}
    /\ herbs \in IF pc = "match_targets" THEN SuccessLists(RenShen, Ginseng)
                 ELSE SuccessLists(RenShen, RenShenYe)
    /\ exact_match = FALSE
    /\ filter_swiss_prob = Unset
    /\ filter_tcmsp \in TcmspFilterConfigs
    /\ filter_herbac = [weight |-> Unset]
    /\ filter_pubchem = [xlogp |-> Unset, hbonddonor |-> Unset, hbondacc |-> Unset]
    /\ err = "" /\ err_in = ""
    /\ net = [pending |-> FALSE, back_to_back |-> FALSE]
    /\ tcmsp_herb_names = herbs
    /\ tcmsp_token = "tok"
    /\ tcmsp_i = Len(herbs) + 1 /\ tcmsp_j = 1
    /\ tcmsp_info_list = <<>>
    /\ tcmsp_info_from = <<>>
    /\ tcmsp_success_herbs = IF pc = "match_targets" THEN herbs ELSE <<>>
    /\ tcmsp_failure_herbs = IF pc = "match_targets" THEN <<>> ELSE herbs
    /\ tcmsp_status = <<>>
    /\ tcmsp_status_set = TRUE
    /\ tcmsp_ret = "None"
    /\ tcmsp_files = {}
    /\ tcmsp_requests = [search |-> 0, download |-> 0]
    /\ herbac_herb_names = IF pc = "match_targets" THEN herbs ELSE tcmsp_failure_herbs
    /\ herbac_i = 1 /\ herbac_j = 1
    /\ herbac_info_list = <<>>
    /\ herbac_success_herbs = IF pc = "match_targets" THEN <<>> ELSE herbs
    /\ herbac_failure_herbs = <<>>
    /\ herbac_status = <<>>
    /\ herbac_files = {}
    /\ herbac_requests = [search |-> 0, detail |-> 0]
    /\ SwissIdle
    /\ PredictIdle
    /\ swiss_adme = None
    /\ TablesIdle

NextMatch ==
    \/ MatchTargets
    \/ HerbacConcatIngredients

SpecMatch == InitMatch /\ [][NextMatch]_vars

(***************************************************************************)
(* HerbAC.apply_filters (SpecFilters)                                      *)
(***************************************************************************)
\* rows of the argument df: ingredients with their PubChem id and weight
FilterDfRows ==
    {[Ingredient_id |-> "HBIN1", PubChem_id |-> 1, Ingredient_weight_numeric |-> Num(500)],
     [Ingredient_id |-> "HBIN2", PubChem_id |-> 1, Ingredient_weight_numeric |-> Num(600)],
     [Ingredient_id |-> "HBIN3", PubChem_id |-> 2, Ingredient_weight_numeric |-> NaNCell]}

\* rows PubChem returns for a list of compound ids
PubchemRows ==
    {[cid |-> 1, isosmiles |-> "CCO", xlogp |-> Num(5), hbonddonor |-> Num(5),
      hbondacc |-> Num(10)],
     [cid |-> 2, isosmiles |-> "CCN", xlogp |-> NaNCell, hbonddonor |-> Num(6),
      hbondacc |-> Num(10)],
     [cid |-> 1, isosmiles |-> "CCC", xlogp |-> Num(6), hbonddonor |-> Num(5),
      hbondacc |-> Num(11)]}

\* mutant: the comparison excludes the threshold itself
AtMost_Strict(cell, threshold) == cell[1] = "num" /\ cell[2] < threshold

\* column <= threshold, False on NaN
AtMost(cell, threshold) == cell[1] = "num" /\ cell[2] <= threshold

\* a filter that is skipped when its threshold is None
FilterAtMost(rows, column, threshold) ==
    IF threshold[1] THEN SelectSeq(rows, LAMBDA row : AtMost(row[column], threshold[2]))
    ELSE rows

\* the columns of the returned frame taken from the two sides of the merge
FilteredColumns(l, r) ==
    [Ingredient_id |-> l.Ingredient_id, PubChem_id |-> l.PubChem_id,
     isosmiles |-> r.isosmiles]

\* apply_filters, lines 1085-1113, on df and the PubChem table
apply_filters(df, compounds) ==
    LET pairs ==
            Merge(FilterAtMost(df, "Ingredient_weight_numeric", filter_herbac.weight),
                  FilterAtMost(
                      FilterAtMost(
                          FilterAtMost(compounds, "xlogp", filter_pubchem.xlogp),
                          "hbonddonor", filter_pubchem.hbonddonor),
                      "hbondacc", filter_pubchem.hbondacc),
                  <<"PubChem_id">>, <<"cid">>, "inner", <<>>)
    IN [k \in 1..Len(pairs) |-> FilteredColumns(pairs[k][1], pairs[k][2])]

\* predict_targets, line 1034: apply_filters(merged_df); the PubChem table
\* is what load_pubchem_compounds gets for the ids of df, or its exception
ApplyFilters ==
    /\ pc = "apply_filters"
    /\ \E ok \in BOOLEAN, compounds \in SeqsUpTo(PubchemRows, MaxRows) :
        IF ~ok
        THEN /\ compounds = <<>>
             /\ Crash("RequestException", "HerbAC.load_pubchem_compounds")
             /\ \E sent \in {1, 2} : net' = Sent(net, sent)
             /\ UNCHANGED <<pubchem_compounds, compounds_filtered>>
        ELSE /\ pubchem_compounds' = compounds
             /\ compounds_filtered' = apply_filters(filters_df, compounds)
             /\ pc' = "load_swissadme"
             /\ net' = Sent(net, 2)
             /\ UNCHANGED <<err, err_in>>
    /\ UNCHANGED <<configVars, tcmspVars, herbacVars, swissVars, predictVars,
                   matchVars, filters_df, geneVars, referenceVars>>

\* predict_targets at line 1034, on any merged ingredient table under any
\* weight and PubChem filter
InitFilters ==
    /\ herbs = <<>>
    /\ exact_match = FALSE
    /\ filter_swiss_prob = Unset
    /\ filter_tcmsp = [ob |-> Unset, dl |-> Unset]
    /\ filter_herbac \in {[weight |-> w] : w \in {Unset, Configured(500)}}
    /\ filter_pubchem \in
          {[xlogp |-> x, hbonddonor |-> d, hbondacc |-> a] :
              x \in {Unset, Configured(5)}, d \in {Unset, Configured(5)},
              a \in {Unset, Configured(10)}}
    /\ pc = "apply_filters"
    /\ AdaptersInit
    /\ SwissIdle
    /\ PredictIdle
    /\ swiss_adme = None
    /\ MatchIdle
    /\ filters_df \in SeqsUpTo(FilterDfRows, MaxRows)
    /\ pubchem_compounds = <<>>
    /\ compounds_filtered = <<>>
    /\ GeneIdle
    /\ ReferenceIdle

SpecFilters == InitFilters /\ [][ApplyFilters]_vars

(***************************************************************************)
(* AutoNP.match_gene (SpecGene)                                            *)
(***************************************************************************)
\* A protein or target name is the sequence of its pieces, the separators
\* " (" and ", " being pieces of their own; the empty cell:
NaNName == <<NaN>>

\* rows of the two target files: (Herb, MOL_ID, Target_Name) of TCMSP and
\* (Herb, Ingredient_id, Target) of HerbAC, a compound without predicted
\* target having an empty Target
TargetFileRows ==
    [tcmsp |-> {[Herb |-> "Renshen", MOL_ID |-> "MOL1", Target_Name |-> <<"ProtA">>],
                [Herb |-> "Renshen", MOL_ID |-> "MOL2", Target_Name |-> <<"ProtC">>]},
     herbac |-> {[Herb |-> "Ginseng", Ingredient_id |-> "HBIN1", Target |-> <<"ProtA">>],
                 [Herb |-> "Ginseng", Ingredient_id |-> "HBIN1", Target |-> NaNName]}]

\* rows of uniprot_20426.csv: "Protein names" and "Gene Names (primary)"
UniprotRows ==
    {[Protein_names |-> <<"ProtA">>, Gene |-> "GA"],
     [Protein_names |-> <<"ProtA", " (", "EC 1)">>, Gene |-> "GA2"],
     [Protein_names |-> <<"ProtB", ", ", "ProtC">>, Gene |-> "GB"],
     [Protein_names |-> NaNName, Gene |-> "GX"]}

\* mutant: the name is not split
SplitFirst_Whole(name, sep) == name

\* .str.split(sep).str[0]: the text before the first occurrence of the
\* separator, the whole text when it has none (NaN, which has none, stays
\* NaN); name and sep are sequences of pieces or of code points
RECURSIVE SplitFirst(_, _)
SplitFirst(name, sep) ==
    IF Len(name) < Len(sep) THEN name
    ELSE IF SubSeq(name, 1, Len(sep)) = sep THEN <<>>
    ELSE <<Head(name)>> \o SplitFirst(Tail(name), sep)

\* the values of the sort columns, in the order of their text
CellOrder == <<"Ginseng", "HBIN1", "MOL1", "MOL2", "Renshen">>

\* mutant: a row also goes before the rows of its own key
SortsBefore_OrEqual(a, b) ==
    LET rank(x) == CHOOSE i \in 1..Len(CellOrder) : CellOrder[i] = x IN
    \/ rank(a.Herb) < rank(b.Herb)
    \/ a.Herb = b.Herb /\ rank(a.Compound_ID) <= rank(b.Compound_ID)

\* row a sorts before row b under by = ["Herb", "Compound_ID"]
SortsBefore(a, b) ==
    LET rank(x) == CHOOSE i \in 1..Len(CellOrder) : CellOrder[i] = x IN
    \/ rank(a.Herb) < rank(b.Herb)
    \/ a.Herb = b.Herb /\ rank(a.Compound_ID) < rank(b.Compound_ID)

\* sort_values(by=["Herb", "Compound_ID"]), equal keys left in their order
sort_values(rows) ==
    LET F[i \in 0..Len(rows)] ==
            IF i = 0 THEN <<>>
            ELSE LET after == SelectSeq(F[i - 1], LAMBDA r : SortsBefore(rows[i], r))
                     k == Len(F[i - 1]) - Len(after)
                 IN SubSeq(F[i - 1], 1, k) \o <<rows[i]>> \o after
    IN F[Len(rows)]

\* match_gene, lines 66-77: the two selections, renamed and concatenated
concat_targets(tcmsp, herbac) ==
    [i \in 1..Len(tcmsp) |->
        [Herb |-> tcmsp[i].Herb, Compound_ID |-> tcmsp[i].MOL_ID,
         Target_Name |-> tcmsp[i].Target_Name]]
    \o [i \in 1..Len(herbac) |->
        [Herb |-> herbac[i].Herb, Compound_ID |-> herbac[i].Ingredient_id,
         Target_Name |-> herbac[i].Target]]

\* match_gene, lines 79-100: the cleaned protein names, the left merge on
\* Target_Name = Protein_names (pandas matches an empty key with an empty
\* key) and the sort
join_genes(targets, uniprot) ==
    LET pairs ==
            Merge(targets,
                  [i \in 1..Len(uniprot) |->
                      [Protein_names |->
                          SplitFirst(SplitFirst(uniprot[i].Protein_names, <<" (">>), <<", ">>),
                       Gene |-> uniprot[i].Gene]],
                  <<"Target_Name">>, <<"Protein_names">>, "left", [Gene |-> NaN])
    IN sort_values([k \in 1..Len(pairs) |->
          [Herb |-> pairs[k][1].Herb, Compound_ID |-> pairs[k][1].Compound_ID,
           Target_Name |-> pairs[k][1].Target_Name, Gene_Symbol |-> pairs[k][2].Gene]])

\* step 6: AutoNP.match_gene, lines 32-105, on the three files it reads
MatchGene ==
    /\ pc = "match_gene"
    /\ \E tcmsp \in {NoFile} \cup {CsvFile(r) : r \in SeqsUpTo(TargetFileRows.tcmsp, MaxRows)},
          herbac \in {NoFile} \cup {CsvFile(r) : r \in SeqsUpTo(TargetFileRows.herbac, MaxRows)},
          uniprot \in SeqsUpTo(UniprotRows, MaxRows) :
        /\ tcmsp_target' = tcmsp
        /\ herbac_target' = herbac
        /\ uniprot_full_gene' = uniprot
        /\ IF ~tcmsp.exists \/ ~herbac.exists
           THEN \* pd.read_csv of a file that was not written
                /\ Crash("FileNotFoundError", "AutoNP.match_gene")
                /\ UNCHANGED <<tcmsp_herbac_target, target_gene>>
           ELSE /\ tcmsp_herbac_target' = concat_targets(tcmsp.rows, herbac.rows)
                /\ target_gene' =
                     join_genes(concat_targets(tcmsp.rows, herbac.rows), uniprot)
                /\ pc' = "done"
                /\ UNCHANGED <<err, err_in>>
    /\ UNCHANGED <<net, configVars, tcmspVars, herbacVars, swissVars, predictVars,
                   matchVars, filterVars, referenceVars, protein_name, protein_clean>>

\* the driver before step 6
InitGene ==
    /\ herbs = <<>>
    /\ exact_match = FALSE
    /\ filter_swiss_prob = Unset
    /\ FiltersUnset
    /\ pc = "match_gene"
    /\ AdaptersInit
    /\ SwissIdle
    /\ PredictIdle
    /\ swiss_adme = None
    /\ TablesIdle

SpecGene == InitGene /\ [][MatchGene]_vars

(***************************************************************************)
(* HerbAC.load_all_ingredients (SpecReference)                             *)
(***************************************************************************)
\* rows of HERB_ingredient_info.txt
ReferenceRows ==
    {[Ingredient_id |-> "HBIN1", Ingredient_name |-> "a", PubChem_id |-> 1],
     [Ingredient_id |-> "HBIN2", Ingredient_name |-> "b", PubChem_id |-> 2]}

\* what __make_request gives for the file's URL: ok = FALSE is the re-raised
\* RequestException, content the rows of the answered file
ReferenceResponses ==
    {[ok |-> FALSE, content |-> <<>>]}
    \cup {[ok |-> TRUE, content |-> rows] : rows \in SeqsUpTo(ReferenceRows, MaxRows)}

\* mutant: the file is downloaded whether it is there or not
NeedsDownload_Always(file) == TRUE

\* line 890: not os.path.exists(file_path)
NeedsDownload(file) == ~file.exists

\* predict_targets, line 1013: one call of load_all_ingredients, lines 878-895,
\* with __download_file, lines 797-809
LoadAllIngredients ==
    /\ pc = "load_all_ingredients"
    /\ all_ingredients_calls' = all_ingredients_calls + 1
    /\ IF NeedsDownload(all_ingredients_file)
       THEN \E response \in ReferenceResponses :
            /\ all_ingredients_requests' =
                 [sent |-> all_ingredients_requests.sent + 1,
                  answered |-> all_ingredients_requests.answered
                                 + (IF response.ok THEN 1 ELSE 0)]
            /\ IF response.ok
               THEN /\ all_ingredients_file' = CsvFile(response.content)
                    /\ herbac_all_ingredients' = response.content
                    /\ pc' = "merge_all_ingredients"
                    /\ UNCHANGED <<err, err_in>>
               ELSE /\ Crash("RequestException", "HerbAC.load_all_ingredients")
                    /\ UNCHANGED <<all_ingredients_file, herbac_all_ingredients>>
       ELSE /\ herbac_all_ingredients' = all_ingredients_file.rows
            /\ pc' = "merge_all_ingredients"
            /\ UNCHANGED <<err, err_in, all_ingredients_file, all_ingredients_requests>>
    /\ UNCHANGED <<configVars, tcmspVars, herbacVars, swissVars, predictVars,
                   matchVars, filterVars, geneVars>>
    /\ net' = Sent(net, all_ingredients_requests'.sent - all_ingredients_requests.sent)

\* a later run of the workflow has come to line 1013 again, the files under
\* save_directory being what the earlier runs left
RunAgain ==
    /\ pc \in {"merge_all_ingredients", "crashed"}
    /\ all_ingredients_calls < MaxCalls
    /\ pc' = "load_all_ingredients"
    /\ err' = ""
    /\ err_in' = ""
    /\ UNCHANGED <<net, configVars, tcmspVars, herbacVars, swissVars, predictVars,
                   tableVars>>

\* predict_targets before line 1013, the file absent or left by an earlier run
InitReference ==
    /\ herbs = <<>>
    /\ exact_match = FALSE
    /\ filter_swiss_prob = Unset
    /\ FiltersUnset
    /\ pc = "load_all_ingredients"
    /\ AdaptersInit
    /\ SwissIdle
    /\ PredictIdle
    /\ swiss_adme = None
    /\ MatchIdle
    /\ FiltersIdle
    /\ GeneIdle
    /\ all_ingredients_file \in
          {NoFile} \cup {CsvFile(rows) : rows \in SeqsUpTo(ReferenceRows, MaxRows)}
    /\ all_ingredients_requests = [sent |-> 0, answered |-> 0]
    /\ all_ingredients_calls = 0
    /\ herbac_all_ingredients = <<>>

NextReference == LoadAllIngredients \/ RunAgain

SpecReference == InitReference /\ [][NextReference]_vars

(***************************************************************************)
(* The filter of HerbAC.load_swissadme (SpecAdme)                          *)
(***************************************************************************)
\* cells of the column "GI absorption"; the empty cell is NaN
HighCell == <<72, 105, 103, 104>>                       \* "High"
LowCell == <<76, 111, 119>>                             \* "Low"

\* rows of swissadme.csv: the five #violations cells in the order Lipinski,
\* Ghose, Veber, Egan, Muegge
AdmeRows ==
    {[Molecule |-> "Molecule 1", SMILES |-> "CCO", Formula |-> "C2H6O",
      violations |-> <<Num(0), Num(0), Num(0), Num(0), Num(0)>>, GI |-> HighCell],
     [Molecule |-> "Molecule 2", SMILES |-> "CCN", Formula |-> "C2H7N",
      violations |-> <<Num(0), Num(1), Num(0), Num(2), Num(0)>>, GI |-> Lower(HighCell)],
     [Molecule |-> "Molecule 3", SMILES |-> "CCO", Formula |-> "C2H6O",
      violations |-> <<Num(1), Num(1), Num(0), Num(1), Num(0)>>, GI |-> HighCell],
     [Molecule |-> "Molecule 4", SMILES |-> "CCN", Formula |-> "C2H7N",
      violations |-> <<Num(0), Num(0), Num(0), Num(0), Num(0)>>, GI |-> LowCell],
     [Molecule |-> "Molecule 5", SMILES |-> "CCO", Formula |-> "C2H6O",
      violations |-> <<Num(0), Num(0), NaNCell, Num(1), Num(1)>>, GI |-> Upper(HighCell)],
     [Molecule |-> "Molecule 6", SMILES |-> "CCN", Formula |-> "C2H7N",
      violations |-> <<Num(0), Num(0), Num(0), Num(0), Num(0)>>, GI |-> <<>>]}

\* mutant: the comparison with "high" is made on the cell as it is
GiHigh_CaseSensitive(cell) == cell = Lower(HighCell)

\* line 1220: df["GI absorption"].str.lower() == "high"
GiHigh(cell) == Lower(cell) = Lower(HighCell)

\* line 1219: df[violation_columns].eq(0).sum(axis=1)
ZeroViolations(cells) ==
    LET F[i \in 0..Len(cells)] ==
            IF i = 0 THEN 0 ELSE F[i - 1] + (IF cells[i] = Num(0) THEN 1 ELSE 0)
    IN F[Len(cells)]

\* lines 1217-1221: the rows kept, with the three columns kept of each
filter_swissadme(rows) ==
    LET kept == SelectSeq(rows, LAMBDA row :
                    ZeroViolations(row.violations) >= 3 /\ GiHigh(row.GI))
    IN [k \in 1..Len(kept) |->
          [Molecule |-> kept[k].Molecule, SMILES |-> kept[k].SMILES,
           Formula |-> kept[k].Formula]]

\* load_swissadme, lines 1172-1222, when the POST is answered with a result
\* code and the result file is downloaded
AdmeLoadSwissadme ==
    /\ pc = "load_swissadme"
    /\ \E rows \in SeqsUpTo(AdmeRows, MaxAdmeRows) :
        LET filtered == filter_swissadme(rows)
            smiles == [k \in 1..Len(filtered) |-> filtered[k].SMILES]
        IN  /\ adme_csv' = rows
            /\ adme_response' = [post |-> TRUE, code |-> TRUE, csv |-> TRUE,
                                 rows |-> smiles]
            /\ swiss_adme' = DataFrame(SwissAdmeColumns, filtered)
            /\ swiss_input' = smiles
    /\ swissadme_requests' = [post |-> swissadme_requests.post + 1,
                              download |-> swissadme_requests.download + 1]
    /\ swissadme_files' = swissadme_files \cup {"code"}
    /\ swiss_pc' = "start"
    /\ pc' = "predicting"
    /\ UNCHANGED <<configVars, err, err_in, compounds_smiles, predict_file,
                   proxies_list, swiss_fetches, swiss_k, swiss_success,
                   swiss_attempts, swiss_session, swiss_sessions, swiss_proxy,
                   swiss_results, swiss_failed, swiss_log, swiss_ret, tcmspVars,
                   herbacVars, tableVars>>
    /\ net' = Sent(net, 2)

SpecAdme == InitPredict /\ [][AdmeLoadSwissadme]_vars

(***************************************************************************)
(* The cleaning of "Protein names" in AutoNP.match_gene (SpecNames)        *)
(***************************************************************************)
\* "Prostaglandin G/H synthase 2 (COX-2), mitochondrial"
Prostaglandin ==
    <<80, 114, 111, 115, 116, 97, 103, 108, 97, 110, 100, 105, 110, 32, 71, 47, 72,
      32, 115, 121, 110, 116, 104, 97, 115, 101, 32, 50, 32, 40, 67, 79, 88, 45, 50,
      41, 44, 32, 109, 105, 116, 111, 99, 104, 111, 110, 100, 114, 105, 97, 108>>

\* the characters "A", " ", "(" and "," of which the other names are made
NameAlphabet == {65, 32, 40, 44}

\* match_gene, lines 80-86, on one cell: Protein_names of "Protein names"
CleanProteinName ==
    /\ pc = "match_gene"
    /\ protein_clean' = SplitFirst(SplitFirst(protein_name, <<32, 40>>), <<44, 32>>)
    /\ pc' = "merge_genes"
    /\ UNCHANGED <<net, configVars, err, err_in, tcmspVars, herbacVars, swissVars,
                   predictVars, matchVars, filterVars, referenceVars, tcmsp_target,
                   herbac_target, uniprot_full_gene, tcmsp_herbac_target,
                   target_gene, protein_name>>

\* match_gene before line 80, on any cell of "Protein names"
InitNames ==
    /\ herbs = <<>>
    /\ exact_match = FALSE
    /\ filter_swiss_prob = Unset
    /\ FiltersUnset
    /\ pc = "match_gene"
    /\ AdaptersInit
    /\ SwissIdle
    /\ PredictIdle
    /\ swiss_adme = None
    /\ MatchIdle
    /\ FiltersIdle
    /\ ReferenceIdle
    /\ tcmsp_target = NoFile
    /\ herbac_target = NoFile
    /\ uniprot_full_gene = <<>>
    /\ tcmsp_herbac_target = <<>>
    /\ target_gene = <<>>
    /\ protein_name \in {Prostaglandin} \cup SeqsUpTo(NameAlphabet, MaxNameLen)
    /\ protein_clean = <<>>

SpecNames == InitNames /\ [][CleanProteinName]_vars

(***************************************************************************)
(* is_chinese_char on the first character of a name (SpecChars)            *)
(***************************************************************************)
\* first characters around the two ends of the range U+4E00..U+9FFF, two
\* ASCII characters, a kana and two ideographs of the extension blocks
BoundaryChars ==
    {65, 127, 12354, 13312, 19967, 19968, 19969, 40958, 40959, 40960, 131072}

\* the driver before step 4, TCMSP having found none of the herbs (the info
\* list, status rows and request counts of TCMSP are not carried along)
InitChars ==
    /\ herbs \in SeqsUpTo({<<c>> : c \in BoundaryChars}, MaxHerbs)
    /\ exact_match = FALSE
    /\ filter_swiss_prob = Unset
    /\ FiltersUnset
    /\ pc = "herbac_collect"
    /\ AdaptersInit
    /\ SwissIdle
    /\ PredictIdle
    /\ swiss_adme = None
    /\ TablesIdle

SpecChars == InitChars /\ [][HerbacCollectHerb]_vars

(***************************************************************************)
(* Properties of the herb download (Spec)                                  *)
(***************************************************************************)
\* the stripped, non-blank entries of a herb list, in order
NonBlankNames(list) ==
    SelectSeq([i \in 1..Len(list) |-> Strip(list[i])], LAMBDA n : n # <<>>)

\* no element twice
Distinct(list) == \A i, j \in 1..Len(list) : list[i] = list[j] => i = j

\* Tcmsp.download_herbs_data got a token and has left its collecting loop
TcmspCollected == tcmsp_token = "tok" /\ pc \notin {"tcmsp_token", "tcmsp_collect"}

\* Tcmsp.download_herbs_data has returned
TcmspReturned == tcmsp_ret # "unset"

\* HerbAC.download_herbs_data has returned
HerbacReturned ==
    \/ pc \in {"predict_targets", "predicting"}
    \/ pc = "crashed" /\ err_in = "HerbAC.predict_targets"

\* the two lists partition a set of names, each name once
PartitionsNames(success, failure, names) ==
    /\ Elems(success) \cap Elems(failure) = {}
    /\ Elems(success) \cup Elems(failure) = names
    /\ \A n \in names : Count(n, success) + Count(n, failure) = 1

\* C1 as stated: after Tcmsp.download_herbs_data ran with a usable token,
\* success_herbs and failure_herbs are disjoint, their union is the set of
\* non-blank stripped input names, and every such name occurs exactly once
\* across the two lists.
C1_PartitionByName ==
    TcmspCollected =>
        PartitionsNames(tcmsp_success_herbs, tcmsp_failure_herbs,
                        Elems(NonBlankNames(tcmsp_herb_names)))

\* C1 amended: after Tcmsp.download_herbs_data ran with a usable token, every
\* non-blank input entry has put its stripped name once into exactly one of
\* the two lists: a name occurs across the two lists as often as among the
\* non-blank stripped entries, and when those entries are pairwise distinct
\* the two lists partition them.
C1_PartitionByEntry ==
    TcmspCollected =>
        LET entries == NonBlankNames(tcmsp_herb_names) IN
        /\ \A n \in Elems(entries) \cup Elems(tcmsp_success_herbs)
                                   \cup Elems(tcmsp_failure_herbs) :
              Count(n, tcmsp_success_herbs) + Count(n, tcmsp_failure_herbs)
                = Count(n, entries)
        /\ Distinct(entries) =>
              PartitionsNames(tcmsp_success_herbs, tcmsp_failure_herbs, Elems(entries))

\* C1 witness: the download returned with one herb resolved and another not
C1_Witness ==
    /\ tcmsp_ret = "None"
    /\ Len(tcmsp_success_herbs) = 1
    /\ Len(tcmsp_failure_herbs) = 1
    /\ tcmsp_success_herbs # tcmsp_failure_herbs

\* C2 as stated: after download_herbs_data of either adapter returns, every
\* non-blank name of its input list is in its success_herbs or in its
\* failure_herbs.
C2_EveryHerbAccounted ==
    /\ TcmspReturned =>
          Elems(NonBlankNames(tcmsp_herb_names))
            \subseteq Elems(tcmsp_success_herbs) \cup Elems(tcmsp_failure_herbs)
    /\ HerbacReturned =>
          Elems(NonBlankNames(herbac_herb_names))
            \subseteq Elems(herbac_success_herbs) \cup Elems(herbac_failure_herbs)

\* C2 amended: after Tcmsp.download_herbs_data returns from a run that got a
\* token, every non-blank input name is in its success_herbs or failure_herbs
\* (without a token it records none); after HerbAC.download_herbs_data
\* returns, every non-blank input name that starts with a Chinese ideograph
\* is in its success_herbs or failure_herbs (the other names are skipped).
C2_EveryEligibleHerbAccounted ==
    /\ tcmsp_ret = "None" =>
          Elems(NonBlankNames(tcmsp_herb_names))
            \subseteq Elems(tcmsp_success_herbs) \cup Elems(tcmsp_failure_herbs)
    /\ tcmsp_ret = "EmptyDataFrame" =>
          tcmsp_success_herbs = <<>> /\ tcmsp_failure_herbs = <<>>
    /\ HerbacReturned =>
          /\ {n \in Elems(NonBlankNames(herbac_herb_names)) : is_chinese_char(n[1])}
               = Elems(herbac_success_herbs) \cup Elems(herbac_failure_herbs)

\* C2 witness: HerbAC returned from a list with a Latin-script name and a
\* Chinese name, having resolved the Chinese one
C2_Witness ==
    /\ HerbacReturned
    /\ \E i \in 1..Len(herbac_herb_names) : ~is_chinese_char(herbac_herb_names[i][1])
    /\ herbac_success_herbs # <<>>

\* C3 as stated: in Tcmsp.download_herbs_data every non-blank herb name
\* yields exactly one herb-info entry to process (a resolved identity or a
\* placeholder), whatever exact_match is.
C3_OneInfoPerHerb ==
    TcmspCollected =>
        Len(tcmsp_info_list) = Len(NonBlankNames(tcmsp_herb_names))

\* C4: when fetch_token returns "", Tcmsp.download_herbs_data issues no
\* search and no download request and leaves success_herbs and failure_herbs
\* as they were; the driver can tell the abort from a normal return (an empty
\* DataFrame instead of None, download_status never assigned) and its run
\* stops at step 1 with an AttributeError instead of going on to step 2.
C4_TokenAbort ==
    tcmsp_token = "" =>
        /\ tcmsp_requests = [search |-> 0, download |-> 0]
        /\ tcmsp_success_herbs = <<>>
        /\ tcmsp_failure_herbs = <<>>
        /\ tcmsp_info_list = <<>>
        /\ tcmsp_ret = "EmptyDataFrame"
        /\ ~tcmsp_status_set
        /\ pc \in {"print_status1", "crashed"}
        /\ pc = "crashed" => err = "AttributeError" /\ err_in = "__main__"

\* C4 witness: a run with a herb to search whose token was empty has ended
C4_Witness ==
    /\ tcmsp_token = ""
    /\ NonBlankNames(herbs) # <<>>
    /\ pc = "crashed"

\* C5 as stated: in HerbAC.download_herbs_data a failed or empty search or
\* ingredient fetch of one herb never aborts the batch: no exception leaves
\* download_herbs_data.
C5_HerbFailureNeverAborts ==
    ~(pc = "crashed" /\ err_in = "HerbAC.download_herbs_data")

\* the scenario of C6: herbs ["人参", "Ginseng"], TCMSP resolved both, the
\* driver went through the HerbAC download and the run has ended
C6_Scenario ==
    /\ herbs = <<RenShen, Ginseng>>
    /\ tcmsp_success_herbs = <<RenShen, Ginseng>>
    /\ HerbacReturned
    /\ pc \in {"crashed", "predicting"}

\* C6 as stated: the scenario ends with HerbAC success_herbs = ["人参"] and
\* TCMSP failure_herbs = [].
C6_ScenarioAsStated ==
    C6_Scenario =>
        herbac_success_herbs = <<RenShen>> /\ tcmsp_failure_herbs = <<>>

\* C6 amended: with input herbs ["人参", "Ginseng"] and TCMSP resolving both,
\* HerbAC is handed TCMSP's empty failure list, so the run ends with HerbAC
\* success_herbs = [] (HerbAC sends no search) and TCMSP failure_herbs = [].
C6_ScenarioAsCoded ==
    C6_Scenario =>
        /\ herbac_success_herbs = <<>>
        /\ herbac_requests.search = 0
        /\ tcmsp_failure_herbs = <<>>

\* C6 witness: the scenario's run has ended, HerbAC having been handed an
\* empty list
C6_Witness == C6_Scenario /\ herbac_herb_names = <<>> /\ tcmsp_requests.download = 2

(***************************************************************************)
(* Properties of SwissPredict.process_smiles_dataframe (SpecSwiss)         *)
(***************************************************************************)
\* the SMILES of a returned table's rows
SmilesOf(df) == {df.rows[i].smiles : i \in 1..Len(df.rows)}

\* C7 as stated: process_smiles_dataframe returns a pair of tables for every
\* run outcome, the failure table with exactly the columns
\* <<smiles_column, "Error">> and the success table with the 8 columns of the
\* target-prediction schema, also with zero failures or zero successes.
C7_AlwaysTwoTables ==
    swiss_pc = "returned" =>
        /\ ~swiss_ret[1].none
        /\ ~swiss_ret[2].none
        /\ swiss_ret[2].columns = <<smiles_column_name, "Error">>
        /\ swiss_ret[1].columns = Append(ResultTableHeaders, "Canonical SMILES")

\* C8: each compound gets at most 2 prediction attempts, none after its
\* first successful one, and no two attempts share a session: every attempt
\* runs in the session created for it.
C8_BoundedFreshAttempts ==
    /\ swiss_attempts <= 2
    /\ \A k \in 1..Len(swiss_input) :
          Cardinality({i \in 1..Len(swiss_log) : swiss_log[i].k = k}) <= 2
    /\ \A i, j \in 1..Len(swiss_log) :
          /\ i < j /\ swiss_log[i].k = swiss_log[j].k => swiss_log[i].failed
          /\ i # j => swiss_log[i].session # swiss_log[j].session
    /\ \A i \in 1..Len(swiss_log) :
          swiss_log[i].session \in 1..swiss_sessions
    /\ swiss_pc = "while" /\ swiss_success => swiss_attempts >= 1

\* C8 witness: a run returned in which a compound failed its first attempt
\* and succeeded at its second, and the next compound succeeded at once
C8_Witness ==
    /\ swiss_pc = "returned"
    /\ Len(swiss_log) = 3
    /\ swiss_log[1].k = 1 /\ swiss_log[1].failed
    /\ swiss_log[2].k = 1 /\ ~swiss_log[2].failed
    /\ swiss_log[3].k = 2 /\ ~swiss_log[3].failed

\* C9 as stated: when the run ends, a compound whose attempts are exhausted
\* is in the failure table, and every input SMILES is in exactly one of the
\* success table and the failure table.
C9_EverySmilesAccounted ==
    swiss_pc = "returned" =>
        /\ ~swiss_ret[1].none /\ ~swiss_ret[2].none
        /\ \A i \in 1..Len(swiss_input) :
              (swiss_input[i] \in SmilesOf(swiss_ret[1]))
                # (swiss_input[i] \in SmilesOf(swiss_ret[2]))

\* C10 as stated: the proxy pool is fetched once per run; a proxy used in a
\* failed attempt is out of the pool from then on and is not selected for
\* any later attempt.
C10_FailedProxyEvicted ==
    /\ swiss_fetches <= 1
    /\ \A i \in 1..Len(swiss_log) :
          swiss_log[i].failed =>
              /\ swiss_log[i].proxy \notin Elems(proxies_list)
              /\ \A j \in 1..Len(swiss_log) :
                    i < j => swiss_log[j].proxy # swiss_log[i].proxy

\* the proxy pool is empty while the compounds are being processed
PoolEmptied == swiss_pc \in {"for", "while"} /\ proxies_list = <<>>

\* C29: once the proxy pool is empty during a run, no prediction request is
\* sent any more and the pool stays empty, every compound the loop finishes
\* from then on is appended to the failure records and to no result, and the
\* run goes on to return the two tables, the failure table holding every
\* compound for which no request was sent
C29_EmptyPoolFailsRest ==
    /\ [][PoolEmptied =>
             /\ swiss_log' = swiss_log
             /\ proxies_list' = <<>>
             /\ net' \in {net, Slept(net)}
             /\ swiss_results' = swiss_results]_vars
    /\ [][PoolEmptied /\ swiss_k' = swiss_k + 1 =>
             swiss_failed' =
                 Append(swiss_failed,
                        [smiles |-> swiss_input[swiss_k],
                         Error |-> "Failed after 2 attempts"])]_vars
    /\ PoolEmptied ~>
          (/\ swiss_pc = "returned"
           /\ ~swiss_ret[1].none /\ ~swiss_ret[2].none
           /\ \A k \in 1..Len(swiss_input) :
                 (\A i \in 1..Len(swiss_log) : swiss_log[i].k # k) =>
                     swiss_input[k] \in SmilesOf(swiss_ret[2]))

\* C29 witness: a run of two compounds returned whose only proxy was evicted
\* at the first attempt for the first compound: no request was sent for the
\* second compound and both are in the failure records
C29_Witness ==
    /\ swiss_pc = "returned"
    /\ Len(swiss_input) = 2
    /\ proxies_list = <<>>
    /\ Len(swiss_log) = 1 /\ swiss_log[1].k = 1 /\ swiss_log[1].failed
    /\ Len(swiss_failed) = 2
    /\ ~swiss_ret[2].none /\ Len(swiss_ret[2].rows) = 2

\* C11 as stated: the probability filter uses the configured threshold
\* filter.swiss.prob. With a null threshold no row of a parsed result table
\* is filtered out; otherwise the kept rows are the rows whose Probability*
\* passes the configured threshold (read as ">=", as the configuration
\* describes it, or as ">", as filter_by_probability compares).
C11_ConfiguredThreshold ==
    \A i \in 1..Len(swiss_log) :
        ~swiss_log[i].failed =>
            IF ~filter_swiss_prob[1]
            THEN swiss_log[i].rows = swiss_log[i].table
            ELSE \/ swiss_log[i].rows =
                      SelectSeq(swiss_log[i].table,
                                LAMBDA x : x >= filter_swiss_prob[2])
                 \/ swiss_log[i].rows =
                      SelectSeq(swiss_log[i].table,
                                LAMBDA x : x > filter_swiss_prob[2])

(***************************************************************************)
(* Properties of predict_targets (SpecPredict)                             *)
(***************************************************************************)
\* C12: when the SwissADME answer holds no result code, load_swissadme ends
\* the batch: no result file is requested or saved, no compound of the batch
\* is submitted to SwissTargetPrediction, and predict_targets does not
\* complete (it writes no prediction file and the run ends in an exception).
C12_NoResultCodeTerminal ==
    (adme_response.post /\ ~adme_response.code) =>
        /\ swiss_adme = DataFrame(<<>>, <<>>)
        /\ swissadme_files = {}
        /\ swissadme_requests.download = 0
        /\ swiss_log = <<>>
        /\ swiss_results = <<>>
        /\ ~predict_file
        /\ pc \in {"predicting", "crashed"}
        /\ pc = "crashed" => err = "KeyError"
        /\ swiss_pc = "returned" => swiss_ret = <<None, None>>

\* C12 witness: a batch without result code whose run has ended, after the
\* proxy list was fetched
C12_Witness ==
    /\ adme_response.post /\ ~adme_response.code
    /\ compounds_smiles # <<>>
    /\ swiss_fetches = 1
    /\ pc = "crashed"

(***************************************************************************)
(* Properties of the ingredient and target tables (SpecMatch)              *)
(***************************************************************************)
\* match_targets has read the files of a non-empty success_herbs
MatchRan ==
    /\ tcmsp_success_herbs # <<>>
    /\ \/ pc = "set_herbac"
       \/ pc = "crashed" /\ err_in = "Tcmsp.match_targets"

\* a cell passes a threshold: the threshold is null, or the cell is a number
\* strictly greater than it
PassesOver(cell, threshold) ==
    ~threshold[1] \/ (cell[1] = "num" /\ cell[2] > threshold[2])

\* C15: match_targets keeps an ingredient only if its OB is strictly greater
\* than the configured OB threshold and its DL strictly greater than the
\* configured DL threshold; a non-numeric OB or DL is excluded whenever its
\* threshold is configured, and an unconfigured threshold filters nothing:
\* the ingredients kept are exactly the rows of the files that pass.
C15_ThresholdsStrict ==
    MatchRan =>
        /\ \A i \in 1..Len(tcmsp_ingredients) :
              /\ PassesOver(tcmsp_ingredients[i].ob, filter_tcmsp.ob)
              /\ PassesOver(tcmsp_ingredients[i].dl, filter_tcmsp.dl)
              /\ tcmsp_ingredients[i].ob[1] # "text"
              /\ tcmsp_ingredients[i].dl[1] # "text"
        /\ \A i \in 1..Len(ingredient_target_match) :
              /\ PassesOver(ingredient_target_match[i].OB, filter_tcmsp.ob)
              /\ PassesOver(ingredient_target_match[i].DL, filter_tcmsp.dl)
        /\ \A h \in Elems(tcmsp_success_herbs) :
              \A k \in 1..Len(ingredient_files[h].rows) :
                 LET raw == ingredient_files[h].rows[k] IN
                 (PassesOver(raw.ob, filter_tcmsp.ob) /\ PassesOver(raw.dl, filter_tcmsp.dl))
                 => \E i \in 1..Len(tcmsp_ingredients) :
                       /\ tcmsp_ingredients[i].Herb = h
                       /\ tcmsp_ingredients[i].MOL_ID = raw.MOL_ID
                       /\ raw.ob[1] = "num" => tcmsp_ingredients[i].ob = raw.ob
                       /\ raw.dl[1] = "num" => tcmsp_ingredients[i].dl = raw.dl

\* C15 witness: both thresholds configured, a file with an ingredient whose
\* OB equals the threshold and one that passes, and a match that came out
C15_Witness ==
    /\ pc = "set_herbac"
    /\ filter_tcmsp.ob = Configured(30) /\ filter_tcmsp.dl = Configured(18)
    /\ tcmsp_success_herbs = <<RenShen>>
    /\ \E k \in 1..Len(ingredient_files[RenShen].rows) :
          ingredient_files[RenShen].rows[k].ob = Num(30)
    /\ Len(tcmsp_ingredients) = 1
    /\ ingredient_target_match # <<>>

\* the target names of the inner merge of the kept ingredients with the
\* targets of the same herb
MergedTargetNames ==
    {target_files[h].rows[k].target_name :
        <<h, k>> \in {<<h, k>> \in Elems(tcmsp_success_herbs) \X (1..MaxRows) :
            /\ k <= Len(target_files[h].rows)
            /\ \E i \in 1..Len(tcmsp_ingredients) :
                  /\ tcmsp_ingredients[i].Herb = h
                  /\ tcmsp_ingredients[i].MOL_ID = target_files[h].rows[k].MOL_ID}}

\* C16: the output of match_targets is the inner merge of the filtered
\* ingredients with the targets on (MOL_ID, Herb), one row per target name:
\* no output row lacks a target, every output row's (Herb, MOL_ID) is in
\* the ingredient and in the target table of that herb, and each distinct
\* target name of the merge is in exactly one output row.
C16_InnerMergeByTarget ==
    (MatchRan /\ pc = "set_herbac") =>
        /\ \A i \in 1..Len(ingredient_target_match) :
              LET row == ingredient_target_match[i] IN
              /\ row.Target_Name # NaN
              /\ \E k \in 1..Len(ingredient_files[row.Herb].rows) :
                    ingredient_files[row.Herb].rows[k].MOL_ID = row.MOL_ID
              /\ \E k \in 1..Len(target_files[row.Herb].rows) :
                    /\ target_files[row.Herb].rows[k].MOL_ID = row.MOL_ID
                    /\ target_files[row.Herb].rows[k].target_name = row.Target_Name
        /\ \A i, j \in 1..Len(ingredient_target_match) :
              i # j => ingredient_target_match[i].Target_Name
                         # ingredient_target_match[j].Target_Name
        /\ {ingredient_target_match[i].Target_Name :
                i \in 1..Len(ingredient_target_match)} = MergedTargetNames \ {NaN}

\* C16 witness: two ingredients of one herb share a target name and the
\* output holds the one row of that name
C16_Witness ==
    /\ pc = "set_herbac"
    /\ tcmsp_success_herbs = <<RenShen>>
    /\ Len(tcmsp_ingredients) = 2
    /\ tcmsp_ingredients[1].MOL_ID # tcmsp_ingredients[2].MOL_ID
    /\ target_files[RenShen].rows =
          <<[MOL_ID |-> "MOL1", target_name |-> "T1"],
            [MOL_ID |-> "MOL2", target_name |-> "T1"]>>
    /\ Len(ingredient_target_match) = 1

\* C20 as stated: after the deduplication of the ingredient tables no two
\* remaining ingredient rows of the same herb share a compound id.
C20_CompoundIdUnique ==
    /\ \A i, j \in 1..Len(tcmsp_ingredients) :
          (i # j /\ tcmsp_ingredients[i].Herb = tcmsp_ingredients[j].Herb)
            => tcmsp_ingredients[i].MOL_ID # tcmsp_ingredients[j].MOL_ID
    /\ \A i, j \in 1..Len(herbac_ingredients) :
          (i # j /\ herbac_ingredients[i].Herb = herbac_ingredients[j].Herb)
            => herbac_ingredients[i].Ingredient_id # herbac_ingredients[j].Ingredient_id

\* the rows of a file that share a compound id are equal in every column
OneRowPerId(file, Id(_), Row(_)) ==
    \A k, l \in 1..Len(file.rows) :
        Id(file.rows[k]) = Id(file.rows[l]) => Row(file.rows[k]) = Row(file.rows[l])

\* C20 as the code has it: after the deduplication no two remaining
\* ingredient rows are equal in every column; the compound id is unique
\* within a herb when the herb's file has one set of values per compound id.
C20_NoDuplicateRows ==
    /\ Distinct(tcmsp_ingredients)
    /\ Distinct(herbac_ingredients)
    /\ \A i, j \in 1..Len(tcmsp_ingredients) :
          LET h == tcmsp_ingredients[i].Herb IN
          (/\ i # j /\ tcmsp_ingredients[j].Herb = h
           /\ OneRowPerId(ingredient_files[h], LAMBDA r : r.MOL_ID,
                           LAMBDA r : [r EXCEPT !.ob = to_numeric(r.ob),
                                                !.dl = to_numeric(r.dl)]))
            => tcmsp_ingredients[i].MOL_ID # tcmsp_ingredients[j].MOL_ID
    /\ \A i, j \in 1..Len(herbac_ingredients) :
          LET h == herbac_ingredients[i].Herb IN
          (/\ i # j /\ herbac_ingredients[j].Herb = h
           /\ OneRowPerId(herbac_ingredient_files[h], LAMBDA r : r.Ingredient_id,
                           LAMBDA r : r))
            => herbac_ingredients[i].Ingredient_id # herbac_ingredients[j].Ingredient_id

\* C20 witness: a herb that is twice in success_herbs, whose file of two
\* compounds was read twice and whose rows remain once
C20_Witness ==
    /\ pc = "set_herbac"
    /\ tcmsp_success_herbs = <<RenShen, RenShen>>
    /\ Len(ingredient_files[RenShen].rows) = 2
    /\ Len(tcmsp_ingredients) = 2
    /\ tcmsp_ingredients[1].MOL_ID # tcmsp_ingredients[2].MOL_ID

(***************************************************************************)
(* Properties of HerbAC.apply_filters (SpecFilters)                        *)
(***************************************************************************)
\* a cell passes a ceiling: the threshold is null, or the cell is a number
\* not greater than it
PassesAtMost(cell, threshold) ==
    ~threshold[1] \/ (cell[1] = "num" /\ cell[2] <= threshold[2])

\* the pairs of a row of df and a row of the PubChem table with
\* PubChem_id = cid, in the order of df and then of the PubChem table
JoinPairs ==
    LET at(n) == <<((n - 1) \div Len(pubchem_compounds)) + 1,
                   ((n - 1) % Len(pubchem_compounds)) + 1>>
        all == [n \in 1..(Len(filters_df) * Len(pubchem_compounds)) |->
                  <<filters_df[at(n)[1]], pubchem_compounds[at(n)[2]]>>]
    IN SelectSeq(all, LAMBDA p : p[1].PubChem_id = p[2].cid)

\* the inner join of df and the PubChem table on PubChem_id = cid
UnfilteredJoin ==
    [k \in 1..Len(JoinPairs) |-> FilteredColumns(JoinPairs[k][1], JoinPairs[k][2])]

\* the rows of that join whose two sides pass every threshold that is set
PassingJoin ==
    LET passing == SelectSeq(JoinPairs, LAMBDA p :
            /\ PassesAtMost(p[1].Ingredient_weight_numeric, filter_herbac.weight)
            /\ PassesAtMost(p[2].xlogp, filter_pubchem.xlogp)
            /\ PassesAtMost(p[2].hbonddonor, filter_pubchem.hbonddonor)
            /\ PassesAtMost(p[2].hbondacc, filter_pubchem.hbondacc))
    IN [k \in 1..Len(passing) |-> FilteredColumns(passing[k][1], passing[k][2])]

\* C14: apply_filters with all thresholds unset returns the unfiltered inner
\* join of the compound table and the PubChem table on PubChem_id = cid;
\* with thresholds set, the output rows are a subset of that join, and an
\* unset threshold changes nothing except skipping its own filter: the
\* output is the join's rows that pass every threshold that is set.
C14_FiltersOnlyNarrow ==
    pc = "load_swissadme" =>
        /\ compounds_filtered = PassingJoin
        /\ Elems(compounds_filtered) \subseteq Elems(UnfilteredJoin)
        /\ Len(compounds_filtered) <= Len(UnfilteredJoin)
        /\ (filter_herbac.weight = Unset /\ filter_pubchem.xlogp = Unset
            /\ filter_pubchem.hbonddonor = Unset /\ filter_pubchem.hbondacc = Unset)
              => compounds_filtered = UnfilteredJoin

\* C14 witness: the weight ceiling set and the PubChem thresholds unset, an
\* ingredient at the ceiling kept and one above it dropped
C14_Witness ==
    /\ pc = "load_swissadme"
    /\ filter_herbac.weight = Configured(500)
    /\ filter_pubchem = [xlogp |-> Unset, hbonddonor |-> Unset, hbondacc |-> Unset]
    /\ Len(UnfilteredJoin) = 2
    /\ compounds_filtered =
          <<[Ingredient_id |-> "HBIN1", PubChem_id |-> 1, isosmiles |-> "CCO"]>>

\* C17 as stated: in HerbAC.download_herbs_data a non-blank name whose first
\* character is not a Chinese ideograph is skipped (no search request is sent
\* for it, it is in neither list), and every non-blank name that starts with
\* a Chinese ideograph is added to exactly one of success_herbs and
\* failure_herbs.
C17_SkippedOrInExactlyOneList ==
    LET names == NonBlankNames(herbac_herb_names)
        left == \/ pc = "herbac_process"
                \/ HerbacReturned
                \/ pc = "crashed" /\ err_in = "HerbAC.download_herbs_data"
    IN  /\ \A n \in Elems(names) :
              ~is_chinese_char(n[1]) =>
                  ~InList(n, herbac_success_herbs) /\ ~InList(n, herbac_failure_herbs)
        /\ herbac_requests.search
              <= Len(SelectSeq(names, LAMBDA n : is_chinese_char(n[1])))
        /\ left =>
              \A n \in Elems(names) :
                 is_chinese_char(n[1]) =>
                     InList(n, herbac_success_herbs) # InList(n, herbac_failure_herbs)

\* the candidate equals the queried name case-insensitively: its Chinese name
\* for a query starting with a Chinese ideograph, else its English name or
\* its pinyin
MatchesQuery(herb_name, item) ==
    IF is_chinese_char(herb_name[1])
    THEN Lower(item.herb_cn_name) = Lower(herb_name)
    ELSE \/ Lower(item.herb_en_name) = Lower(herb_name)
         \/ Lower(item.herb_pinyin) = Lower(herb_name)

\* C18: with exact_match set, fetch_herb_info returns only candidates of the
\* page that equal the queried name case-insensitively (the Chinese name when
\* the query starts with a Chinese ideograph, else the English name or the
\* pinyin), and returns none when no candidate matches; the collecting loop
\* then records the herb either as resolved with such candidates or, with a
\* placeholder, in failure_herbs.
C18_ExactMatchOnly ==
    [][(pc = "tcmsp_collect" /\ exact_match /\ tcmsp_i' = tcmsp_i + 1
        /\ Strip(tcmsp_herb_names[tcmsp_i]) # <<>>) =>
         LET herb_name == Strip(tcmsp_herb_names[tcmsp_i])
             added == SubSeq(tcmsp_info_list', Len(tcmsp_info_list) + 1,
                             Len(tcmsp_info_list'))
         IN  /\ \A page \in TcmspSearchPages :
                  \A query \in {herb_name, Lower(herb_name), Upper(herb_name)} :
                     LET returned == fetch_herb_info(query, page, TRUE) IN
                     /\ \A k \in 1..Len(returned) :
                           /\ InList(returned[k], page.data)
                           /\ MatchesQuery(query, returned[k])
                     /\ (\A c \in 1..Len(page.data) : ~MatchesQuery(query, page.data[c]))
                           => returned = <<>>
             /\ \/ /\ added # <<>>
                   /\ \A k \in 1..Len(added) :
                         added[k].downloadable /\ MatchesQuery(herb_name, added[k])
                   /\ tcmsp_success_herbs' = Append(tcmsp_success_herbs, herb_name)
                   /\ tcmsp_failure_herbs' = tcmsp_failure_herbs
                \/ /\ added = <<TcmspPlaceholder(herb_name)>>
                   /\ tcmsp_failure_herbs' = Append(tcmsp_failure_herbs, herb_name)
                   /\ tcmsp_success_herbs' = tcmsp_success_herbs]_vars

\* C18 witness: with exact_match set, the names "人参" and "Ginseng" have
\* been collected and each resolved to the one entry of that name
C18_Witness ==
    /\ exact_match
    /\ pc = "tcmsp_process"
    /\ tcmsp_success_herbs = <<RenShen, Ginseng>>
    /\ tcmsp_info_list = <<TcmspRenShen, TcmspRenShen>>

\* three status rows of one herb, for ingredients, targets and diseases in
\* this order, each a success exactly when it counts data rows
ThreeStatusRows(rows, herb_info) ==
    /\ Len(rows) = 3
    /\ \A k \in 1..3 :
          /\ rows[k].file_type = <<"ingredients", "targets", "diseases">>[k]
          /\ rows[k].cn = herb_info.herb_cn_name
          /\ rows[k].en = herb_info.herb_en_name
          /\ (rows[k].status = "success") = (rows[k].rows > 0)
          /\ rows[k].status \in {"success", "failure"}

\* C19: for every resolved herb download_single_herb records exactly three
\* status rows, one each for ingredients, targets and diseases; each row is
\* a success exactly when the data extracted for its table is non-empty,
\* whatever the other two tables hold, and all three are failures when the
\* page fetch fails.
C19_ThreeStatusRows ==
    [][(pc = "tcmsp_process" /\ tcmsp_j' = tcmsp_j + 1
        /\ tcmsp_info_list[tcmsp_j].downloadable) =>
         LET herb_info == tcmsp_info_list[tcmsp_j]
             added == SubSeq(tcmsp_status', Len(tcmsp_status) + 1, Len(tcmsp_status'))
         IN  /\ ThreeStatusRows(added, herb_info)
             /\ \A page \in TcmspHerbPages :
                  LET info == download_single_herb(herb_info, page) IN
                  /\ ThreeStatusRows(info, herb_info)
                  /\ page.html =>
                        /\ (info[1].status = "success") = (page.grid > 0)
                        /\ (info[2].status = "success") = (page.grid2 > 0)
                        /\ (info[3].status = "success") = (page.grid3 > 0)
                  /\ ~page.html => \A k \in 1..3 : info[k].status = "failure"]_vars

\* C19 witness: the three rows of a resolved herb whose page held ingredients
\* and diseases but no targets
C19_Witness ==
    /\ tcmsp_info_list # <<>>
    /\ tcmsp_info_list[1].downloadable
    /\ Len(tcmsp_status) >= 3
    /\ tcmsp_status[1].status = "success"
    /\ tcmsp_status[2].status = "failure"
    /\ tcmsp_status[3].status = "success"

\* C27: download_herbs_data saves the files of every resolved herb info under
\* the name of herb_names that this herb info was collected for, and the
\* lookup of that name never indexes past the end of herb_names
C27_FilesUnderResolvedName ==
    /\ [](~(err = "IndexError" /\ err_in = "Tcmsp.download_herbs_data"))
    /\ [][(pc = "tcmsp_process" /\ tcmsp_j' = tcmsp_j + 1) =>
            \A f \in tcmsp_files' \ tcmsp_files :
                f.name = tcmsp_herb_names[tcmsp_info_from[tcmsp_j]]]_vars

\* C28 as stated: the names HerbAC has searched once its collecting loop has
\* ended (each is in its success_herbs or its failure_herbs) are exactly the
\* names of Tcmsp.failure_herbs, and none of them is in Tcmsp.success_herbs
C28_SearchesExactlyFailureHerbs ==
    pc = "herbac_process" =>
        LET searched == {herbac_success_herbs[i] : i \in DOMAIN herbac_success_herbs}
                        \cup
                        {herbac_failure_herbs[i] : i \in DOMAIN herbac_failure_herbs}
        IN  /\ searched = {tcmsp_failure_herbs[i] : i \in DOMAIN tcmsp_failure_herbs}
            /\ \A i \in DOMAIN tcmsp_success_herbs :
                   tcmsp_success_herbs[i] \notin searched

\* C28 amended: HerbAC's herb list is Tcmsp.failure_herbs and every search it
\* sends is for a name of that list; Tcmsp.success_herbs and failure_herbs
\* change in the collecting loop only, so no download outcome moves a herb,
\* and a herb in success_herbs and not in failure_herbs is never searched
C28_SearchesOnlyFailureHerbs ==
    /\ [](pc \in {"herbac_collect", "herbac_process"} =>
             herbac_herb_names = tcmsp_failure_herbs)
    /\ [][pc # "tcmsp_collect" =>
             /\ tcmsp_success_herbs' = tcmsp_success_herbs
             /\ tcmsp_failure_herbs' = tcmsp_failure_herbs]_vars
    /\ [][herbac_requests'.search > herbac_requests.search =>
             \E i \in DOMAIN tcmsp_failure_herbs :
                 tcmsp_failure_herbs[i] = Strip(herbac_herb_names[herbac_i])]_vars

\* C28 witness: TCMSP resolved "Ginseng" and a table of it failed to
\* download, the search for "人参" failed, and HerbAC has sent its one
\* search, for "人参"
C28_Witness ==
    /\ pc = "herbac_process"
    /\ tcmsp_success_herbs = <<Ginseng>>
    /\ tcmsp_failure_herbs = <<RenShen>>
    /\ \E k \in DOMAIN tcmsp_status :
          tcmsp_status[k].status = "failure" /\ tcmsp_status[k].en # <<>>
    /\ herbac_requests.search = 1
    /\ herbac_success_herbs = <<RenShen>>

\* C30: the row count of every download-status row is the number of data
\* records persisted for that table, 0 when the row reports a failure: each
\* row a step of Tcmsp.download_single_herb or HerbAC.load_herb_ingredient
\* adds either reports success with the row count of the file just written,
\* or reports failure with 0
C30_RowCountIsPersisted ==
    /\ [][\A k \in (Len(tcmsp_status) + 1)..Len(tcmsp_status') :
             LET row == tcmsp_status'[k] IN
             IF row.status = "success"
             THEN \E f \in tcmsp_files' :
                     /\ f.name = tcmsp_herb_names[tcmsp_j]
                     /\ f.kind = row.file_type
                     /\ f.rows = row.rows
             ELSE row.rows = 0]_vars
    /\ [][\A k \in (Len(herbac_status) + 1)..Len(herbac_status') :
             LET row == herbac_status'[k] IN
             IF row.status = "success"
             THEN \E f \in herbac_files' :
                     /\ f.name = row.cn
                     /\ f.kind = row.file_type
                     /\ f.rows = row.rows
             ELSE row.rows = 0]_vars

\* C26: between any two successive requests sent to a third-party endpoint
\* during a run a time.sleep occurs: no request is sent while an earlier
\* request has not yet been followed by a sleep
C26_DelayBetweenRequests == ~net.back_to_back

(***************************************************************************)
(* Properties of AutoNP.match_gene (SpecGene)                              *)
(***************************************************************************)
\* C13 as stated: the gene-matching join is a left join. Every row of the
\* concatenated TCMSP+HerbAC target table is in the output at least once, a
\* row whose Target_Name matches no canonical protein name (an empty
\* Target_Name names no protein) is kept with a null Gene_Symbol, and every
\* output row's (Herb, Compound_ID) pair existed in the input target table.
C13_LeftJoin ==
    pc = "done" =>
        /\ \A k \in 1..Len(tcmsp_herbac_target) :
              \E i \in 1..Len(target_gene) :
                 /\ target_gene[i].Herb = tcmsp_herbac_target[k].Herb
                 /\ target_gene[i].Compound_ID = tcmsp_herbac_target[k].Compound_ID
                 /\ target_gene[i].Target_Name = tcmsp_herbac_target[k].Target_Name
        /\ \A i \in 1..Len(target_gene) :
              (\/ target_gene[i].Target_Name = NaNName
               \/ \A u \in 1..Len(uniprot_full_gene) :
                     SplitFirst(SplitFirst(uniprot_full_gene[u].Protein_names, <<" (">>), <<", ">>)
                       # target_gene[i].Target_Name)
                => target_gene[i].Gene_Symbol = NaN
        /\ \A i \in 1..Len(target_gene) :
              \E k \in 1..Len(tcmsp_herbac_target) :
                 /\ target_gene[i].Herb = tcmsp_herbac_target[k].Herb
                 /\ target_gene[i].Compound_ID = tcmsp_herbac_target[k].Compound_ID

\* the left join of match_gene before its sort: the rows of the target table
\* in their order, each beside the genes of the UniProt rows of its name, in
\* the order of the UniProt file
GeneJoin ==
    Flatten([i \in 1..Len(tcmsp_herbac_target) |->
        LET t == tcmsp_herbac_target[i]
            genes == SelectSeq(uniprot_full_gene, LAMBDA u :
                        SplitFirst(SplitFirst(u.Protein_names, <<" (">>), <<", ">>)
                          = t.Target_Name)
            row(g) == [Herb |-> t.Herb, Compound_ID |-> t.Compound_ID,
                       Target_Name |-> t.Target_Name, Gene_Symbol |-> g]
        IN  IF genes = <<>> THEN <<row(NaN)>>
            ELSE [k \in 1..Len(genes) |-> row(genes[k].Gene)]])

\* the position of a row's (Herb, Compound_ID) in the ascending order of
\* such pairs
KeyRank(row) ==
    LET rank(x) == CHOOSE i \in 1..Len(CellOrder) : CellOrder[i] = x IN
    rank(row.Herb) * (Len(CellOrder) + 1) + rank(row.Compound_ID)

\* C23: the gene table match_gene writes is sorted ascending by
\* (Herb, Compound_ID), and rows with equal (Herb, Compound_ID) keep the
\* relative order they have in the join.
C23_SortedStable ==
    pc = "done" =>
        /\ \A i, j \in 1..Len(target_gene) :
              i < j => KeyRank(target_gene[i]) <= KeyRank(target_gene[j])
        /\ \A key \in {KeyRank(GeneJoin[i]) : i \in 1..Len(GeneJoin)}
                     \cup {KeyRank(target_gene[i]) : i \in 1..Len(target_gene)} :
              SelectSeq(target_gene, LAMBDA r : KeyRank(r) = key)
                = SelectSeq(GeneJoin, LAMBDA r : KeyRank(r) = key)

\* C23 witness: the sort moved rows (the join was not in order) and two
\* different rows of the same (Herb, Compound_ID) are in the table
C23_Witness ==
    /\ pc = "done"
    /\ target_gene # GeneJoin
    /\ \E i, j \in 1..Len(target_gene) :
          /\ i < j
          /\ KeyRank(target_gene[i]) = KeyRank(target_gene[j])
          /\ target_gene[i] # target_gene[j]

(***************************************************************************)
(* Properties of is_chinese_char (SpecChars)                               *)
(***************************************************************************)
\* C25: is_chinese_char classifies a name as Chinese exactly when the code
\* point of its first character lies in U+4E00..U+9FFF, both ends included,
\* and never a name that starts with an ASCII character: the collecting loop
\* of HerbAC, which passes over the names it does not classify as Chinese,
\* has searched and recorded exactly the names in that range.
C25_ChineseRange ==
    /\ \A c \in BoundaryChars :
          /\ is_chinese_char(c) = (c \in 19968..40959)
          /\ c < 128 => ~is_chinese_char(c)
    /\ pc = "herbac_process" =>
          /\ \A n \in Elems(herbac_herb_names) :
                (InList(n, herbac_success_herbs) \/ InList(n, herbac_failure_herbs))
                  = (n[1] \in 19968..40959)
          /\ herbac_requests.search =
                Len(SelectSeq(herbac_herb_names, LAMBDA n : n[1] \in 19968..40959))

\* C25 witness: of the names U+9FFF and U+A000 the first was searched and
\* recorded and the second passed over
C25_Witness ==
    /\ pc = "herbac_process"
    /\ herbac_herb_names = <<<<40959>>, <<40960>>>>
    /\ herbac_failure_herbs = <<<<40959>>>>
    /\ herbac_requests.search = 1

(***************************************************************************)
(* Properties of the cleaning of "Protein names" (SpecNames)               *)
(***************************************************************************)
\* the text before the first occurrence of pat in s, s when it has none
BeforeFirst(s, pat) ==
    LET at == {i \in 1..(Len(s) - Len(pat) + 1) : SubSeq(s, i, i + Len(pat) - 1) = pat}
    IN  IF at = {} THEN s
        ELSE SubSeq(s, 1, (CHOOSE i \in at : \A j \in at : i <= j) - 1)

\* C24 as stated: the canonical name is the text before the first " (" and,
\* of the alternatives that commas separate in that text, the first one.
C24_FirstOfCommaSeparated ==
    pc = "merge_genes" =>
        protein_clean = BeforeFirst(BeforeFirst(protein_name, <<32, 40>>), <<44>>)

\* C24 amended: the canonical name is the text before the first " (" and,
\* of the alternatives that ", " (a comma and a space) separates in that
\* text, the first one; a comma that no space follows does not separate.
\* "Prostaglandin G/H synthase 2 (COX-2), mitochondrial" gives
\* "Prostaglandin G/H synthase 2", and a canonical name canonicalizes to
\* itself.
C24_FirstOfCommaSpaceSeparated ==
    pc = "merge_genes" =>
        /\ protein_clean = BeforeFirst(BeforeFirst(protein_name, <<32, 40>>), <<44, 32>>)
        /\ protein_name = Prostaglandin => protein_clean = SubSeq(Prostaglandin, 1, 28)
        /\ SplitFirst(SplitFirst(protein_clean, <<32, 40>>), <<44, 32>>) = protein_clean

\* C24 witness: the name of the example has been cleaned
C24_Witness ==
    /\ pc = "merge_genes"
    /\ protein_name = Prostaglandin
    /\ Len(protein_clean) = 28

(***************************************************************************)
(* Properties of the filter of HerbAC.load_swissadme (SpecAdme)            *)
(***************************************************************************)
\* the row has at least 3 of its 5 violation counts equal to zero and its GI
\* absorption is "high" in any case of letters
PassesAdmeRule(row) ==
    /\ Cardinality({k \in 1..5 : row.violations[k] = Num(0)}) >= 3
    /\ Len(row.GI) = 4
    /\ \A k \in 1..4 : row.GI[k] \in {HighCell[k], LowerChar(HighCell[k]),
                                       UpperChar(HighCell[k])}

\* C22: load_swissadme emits exactly the rows of the downloaded result in
\* which at least 3 of the 5 rule-violation counts equal zero and GI
\* absorption is "high" case-insensitively, in their order, projected to
\* Molecule, Canonical SMILES and Formula.
C22_FilterThreeOfFive ==
    pc = "predicting" =>
        LET passing == SelectSeq(adme_csv, PassesAdmeRule) IN
        /\ swiss_adme.columns = <<"Molecule", "Canonical SMILES", "Formula">>
        /\ Len(swiss_adme.rows) = Len(passing)
        /\ \A k \in 1..Len(passing) :
              /\ DOMAIN swiss_adme.rows[k] = {"Molecule", "SMILES", "Formula"}
              /\ swiss_adme.rows[k].Molecule = passing[k].Molecule
              /\ swiss_adme.rows[k].SMILES = passing[k].SMILES
              /\ swiss_adme.rows[k].Formula = passing[k].Formula

\* C22 witness: a file of three rows, one passing with "High", one passing
\* with "high" and exactly three zero counts, one failing with two zero
\* counts; the two passing rows are emitted
C22_Witness ==
    /\ pc = "predicting"
    /\ Len(adme_csv) = 3
    /\ adme_csv[1].Molecule = "Molecule 3"
    /\ adme_csv[2].Molecule = "Molecule 2"
    /\ adme_csv[3].Molecule = "Molecule 1"
    /\ [k \in 1..Len(swiss_adme.rows) |-> swiss_adme.rows[k].Molecule]
          = <<"Molecule 2", "Molecule 1">>

(***************************************************************************)
(* Properties of HerbAC.load_all_ingredients (SpecReference)               *)
(***************************************************************************)
\* C21 as stated: over any sequence of calls of load_all_ingredients at most
\* one download request is made.
C21_AtMostOneRequest == all_ingredients_requests.sent <= 1

\* C21 amended: a call requests the file only when the local file does not
\* exist, and at most once; over any sequence of calls at most one request
\* is answered, the one that creates the file, and an existing local file is
\* never requested again nor overwritten. (A request that fails leaves no
\* file, and the next call requests again.)
C21_DownloadOnlyWhenAbsent ==
    /\ [](all_ingredients_requests.answered <= 1)
    /\ [][/\ all_ingredients_requests'.sent <= all_ingredients_requests.sent + 1
          /\ all_ingredients_file.exists =>
                /\ all_ingredients_file' = all_ingredients_file
                /\ all_ingredients_requests' = all_ingredients_requests
          /\ all_ingredients_requests'.answered > all_ingredients_requests.answered =>
                ~all_ingredients_file.exists /\ all_ingredients_file'.exists]_vars

\* C21 witness: a request failed, the next call's request was answered and
\* wrote the file, and a third call read the file without a request
C21_Witness ==
    /\ all_ingredients_calls = 3
    /\ all_ingredients_requests = [sent |-> 2, answered |-> 1]
    /\ all_ingredients_file.exists
    /\ herbac_all_ingredients = all_ingredients_file.rows
    /\ pc = "merge_all_ingredients"

====
